---- MODULE Spec2Model ----
(***************************************************************************)
(* Brahmic Engine (Telugu/Tenglish to Python transpiler): the tokenizer    *)
(* (src/src/lexer.py), the recursive-descent parser (src/src/parser.py)    *)
(* and the tree renderer (src/src/ast_nodes.py) as one pipeline            *)
(*      text -> tokenize -> parse -> to_python.                            *)
(*                                                                         *)
(* Text is a sequence of atoms.  An atom is either a maximal run of word   *)
(* characters (an identifier-like word or a decimal number) or one single  *)
(* non-word character (a space, a newline, a quote, a bracket, ...).       *)
(* Every string the program handles (token values, identifier names,       *)
(* rendered output) is such a sequence.  Words that start with a digit are *)
(* all digits; a number value is held as the text str() gives for it.      *)
(***************************************************************************)
EXTENDS Integers, Sequences, FiniteSets, TLC

\* stream_pos is the cursor (TokenStream.pos) of a token stream that is stepped
\* through from outside a parse call, lookahead the lookahead predicate last
\* asked about it with its answer; parse itself builds and drops its stream
\* within one step
VARIABLES text, pc, tokens, tree, err, output, paren_count, lineno, stream_pos, lookahead

vars == <<text, pc, tokens, tree, err, output, paren_count, lineno, stream_pos, lookahead>>

(***************************************************************************)
(* Characters and words                                                    *)
(***************************************************************************)
SP == " "
TAB == "\t"
NL == "\n"
QUOTE == "\""
BSLASH == "\\"

\* the single-character atoms (everything that is not matched by \w)
PunctAtoms ==
    {SP, TAB, NL, QUOTE, BSLASH, "(", ")", "[", "]", "{", "}", ",", ".", ":",
     "+", "-", "*", "/", "=", "<", ">", "!", "%", "@"}

NumberWords == {"0", "1", "2", "3", "5", "05", "10", "80", "90"}

\* str(int(w)) for a word of digits: leading zeros go
IntText(w) == IF w = "05" THEN "5" ELSE w

\* the digits after the point in str(float("n." + w)): trailing zeros go
FracText(w) ==
    CASE w = "10" -> "1" [] w = "80" -> "8" [] w = "90" -> "9" [] OTHER -> w

\* \s of the regular expressions
IsSpace(a) == a \in {SP, TAB, NL}

\* \w+ matching a whole atom
IsWordAtom(a) == a \notin PunctAtoms

\* \d+ matching a whole atom
IsDigits(a) == a \in NumberWords

\* Words of the model that begin with the literal that ends a token rule's
\* regular expression: <<word, literal, remainder>>.
WordSplits ==
    { <<"kitten", "ki", "tten">>,
      <<"cheppudu", "cheppu", "du">>,
      <<"aitey", "aite", "y">>,
      <<"vellux", "vellu", "x">>,
      <<"varakula", "varaku", "la">>,
      <<"okavelan", "okavela", "n">> }

\* a regular expression ending in the literal p matches the beginning of atom a
HasPrefix(a, p) == a = p \/ \E t \in WordSplits : t[1] = a /\ t[2] = p

\* what is left of atom a in the input after the literal p was matched
RestAfter(a, p) ==
    IF a = p THEN <<>>
    ELSE <<(CHOOSE t \in WordSplits : t[1] = a /\ t[2] = p)[3]>>

Max(S) == CHOOSE x \in S : \A y \in S : y <= x
Min(S) == CHOOSE x \in S : \A y \in S : x <= y

RECURSIVE Flatten(_)
Flatten(ss) == IF ss = <<>> THEN <<>> ELSE Head(ss) \o Flatten(Tail(ss))

\* first index >= i of s holding atom a, 0 when there is none
IndexFrom(s, a, i) ==
    LET I == {j \in i..Len(s) : s[j] = a} IN IF I = {} THEN 0 ELSE Min(I)

\* first index >= i of s whose atom is not whitespace (\s* or \s+ consumed),
\* Len(s) + 1 when only whitespace is left
SkipSpace(s, i) ==
    LET I == {j \in i..Len(s) : ~IsSpace(s[j])} IN
    IF I = {} THEN Len(s) + 1 ELSE Min(I)

\* s[i..] (to the end)
From(s, i) == SubSeq(s, i, Len(s))

(***************************************************************************)
(* Keyword tables (src/src/keywords.py)                                    *)
(***************************************************************************)
SINGLE_WORD_KEYWORDS ==
    [okavela |-> <<"if">>, lekapothe |-> <<"else">>, aite |-> <<":">>,
     vidhanam |-> <<"def">>, ivvu |-> <<"return">>,
     lo |-> <<"in">>, ki |-> <<>>,
     mariyu |-> <<"and">>, leda |-> <<"or">>, avvakapote |-> <<"not">>,
     Nijam |-> <<"True">>, Abaddam |-> <<"False">>,
     aagipo |-> <<"break">>, cheppu |-> <<"print">>]

\* first word -> <<second word, translation>>
MULTI_WORD_KEYWORDS ==
    [munduku |-> <<"vellu", "continue">>,
     unnanta |-> <<"varaku", "while">>,
     lekapothe |-> <<"okavela", "elif">>]

(***************************************************************************)
(* Tokenizer (src/src/lexer.py)                                            *)
(***************************************************************************)
Tok(type, value, line) == [type |-> type, value |-> value, lineno |-> line]

\* t_STRING  r'\"([^\\\n]|(\\.))*?\"' : index of the closing quote, scanning
\* from index i; 0 when the literal is not closed on its line
RECURSIVE StringEnd(_, _)
StringEnd(s, i) ==
    IF i > Len(s) THEN 0
    ELSE IF s[i] = QUOTE THEN i
    ELSE IF s[i] = NL THEN 0
    ELSE IF s[i] = BSLASH
         THEN IF i + 1 > Len(s) \/ s[i + 1] = NL THEN 0 ELSE StringEnd(s, i + 2)
    ELSE StringEnd(s, i + 1)

\* t_PRINT_POSTFIX  r'\([^)]*\)\s*cheppu' : index of the atom that holds
\* cheppu, 0 when the rule does not match at s[1]
PrintPostfixEnd(s) ==
    IF Head(s) # "(" THEN 0
    ELSE LET j == IndexFrom(s, ")", 2) IN
         IF j = 0 THEN 0
         ELSE LET k == SkipSpace(s, j + 1) IN
              IF k <= Len(s) /\ HasPrefix(s[k], "cheppu") THEN k ELSE 0

\* the value t_PRINT_POSTFIX gives the token: print(<args>)
PrintPostfixValue(s) ==
    <<"print", "(">> \o SubSeq(s, 2, IndexFrom(s, ")", 2) - 1) \o <<")">>

\* t_MULTIWORD_KEYWORD  r'(munduku\s+vellu|unnanta\s+varaku|lekapothe\s+okavela)':
\* index of the atom that holds the second word, 0 when there is no match
MultiwordEnd(s) ==
    IF Head(s) \notin DOMAIN MULTI_WORD_KEYWORDS \/ Len(s) < 3 \/ ~IsSpace(s[2])
    THEN 0
    ELSE LET k == SkipSpace(s, 2) IN
         IF k <= Len(s) /\ HasPrefix(s[k], MULTI_WORD_KEYWORDS[Head(s)][1])
         THEN k ELSE 0

\* t_FOR_LOOP_PATTERN  r'\w+\s+lo\s+\w+\s+ki' : <<index of lo, index of the
\* variable, index of the atom that holds ki>>, <<>> when there is no match
ForLoopMatch(s) ==
    IF ~IsWordAtom(Head(s)) \/ Len(s) < 2 \/ ~IsSpace(s[2]) THEN <<>>
    ELSE LET l == SkipSpace(s, 2) IN
         IF l + 1 > Len(s) \/ s[l] # "lo" \/ ~IsSpace(s[l + 1]) THEN <<>>
         ELSE LET v == SkipSpace(s, l + 1) IN
              IF v + 1 > Len(s) \/ ~IsWordAtom(s[v]) \/ ~IsSpace(s[v + 1]) THEN <<>>
              ELSE LET k == SkipSpace(s, v + 1) IN
                   IF k <= Len(s) /\ HasPrefix(s[k], "ki") THEN <<l, v, k>> ELSE <<>>

\* t_CONDITIONAL_PATTERN  r'okavela\s+[^:]+\s+aite'
\* the span [^:]+ may run over: up to the atom before the first colon
CondRegionEnd(s) ==
    LET c == IndexFrom(s, ":", 2) IN IF c = 0 THEN Len(s) ELSE c - 1

\* \s+aite matches with aite held by atom q, leaving room for \s+[^:]+ before
ValidAite(s, q) ==
    q >= 5 /\ q <= CondRegionEnd(s) /\ HasPrefix(s[q], "aite") /\ IsSpace(s[q - 1])

\* index of the atom holding the aite that ends the (greedy) match, 0 when
\* the rule does not match at s[1]
ConditionalEnd(s) ==
    IF Head(s) # "okavela" \/ Len(s) < 5 \/ ~IsSpace(s[2]) THEN 0
    ELSE LET Q == {q \in 5..CondRegionEnd(s) : ValidAite(s, q)} IN
         IF Q = {} THEN 0 ELSE Max(Q)

\* the condition that re.match(r'okavela\s+(.+?)\s+aite', t.value) extracts
\* from the matched text s[1..e]: <<TRUE, group(1)>>, or <<FALSE, <<>>>> when
\* the inner match fails ('.' does not match a newline)
ConditionalGroup(s, e) ==
    LET w == SkipSpace(s, 2) - 1
        Q == {q \in (w + 3)..e : HasPrefix(s[q], "aite") /\ IsSpace(s[q - 1])}
    IN  IF Q # {}
        THEN LET q == Min(Q)
                 m == Max({j \in (w + 1)..(q - 2) : ~IsSpace(s[j])})
             IN  IF NL \in {s[j] : j \in (w + 1)..m} THEN <<FALSE, <<>>>>
                 ELSE <<TRUE, SubSeq(s, w + 1, m)>>
        ELSE \* only whitespace between okavela and aite: \s+ gives back
             LET A == {a \in 2..(w - 2) : s[a + 1] # NL} IN
             IF A = {} THEN <<FALSE, <<>>>> ELSE <<TRUE, <<s[Max(A) + 1]>>>>

\* the fixed operator and punctuation rules (t_PLUS .. t_COLON); the
\* two-character rules are tried before the one-character ones
TwoCharType(a, b) ==
    CASE a = "=" /\ b = "=" -> "EQUALS"
      [] a = "<" /\ b = "=" -> "LE"
      [] a = ">" /\ b = "=" -> "GE"
      [] a = "!" /\ b = "=" -> "NE"
      [] OTHER -> ""

OneCharType(a) ==
    CASE a = "+" -> "PLUS"   [] a = "-" -> "MINUS"
      [] a = "*" -> "TIMES"  [] a = "/" -> "DIVIDE"
      [] a = "<" -> "LT"     [] a = ">" -> "GT"
      [] a = "=" -> "ASSIGN"
      [] a = "(" -> "LPAREN"   [] a = ")" -> "RPAREN"
      [] a = "[" -> "LBRACKET" [] a = "]" -> "RBRACKET"
      [] a = "{" -> "LBRACE"   [] a = "}" -> "RBRACE"
      [] a = "," -> "COMMA"  [] a = "." -> "DOT"  [] a = ":" -> "COLON"
      [] OTHER -> ""

\* t_IDENTIFIER: a single-word keyword becomes TELUGU_KEYWORD, carrying the
\* table's translation unless that is empty
IdentifierToken(a, line) ==
    IF a \in DOMAIN SINGLE_WORD_KEYWORDS
    THEN LET python_kw == SINGLE_WORD_KEYWORDS[a] IN
         Tok("TELUGU_KEYWORD", IF python_kw # <<>> THEN python_kw ELSE <<a>>, line)
    ELSE Tok("IDENTIFIER", <<a>>, line)

\* track_parentheses
TrackParentheses(count, t) ==
    IF t.type = "LPAREN" THEN count + 1
    ELSE IF t.type = "RPAREN" THEN count - 1
    ELSE count

\* length of the run of newlines at the head of s (t_NEWLINE r'\n+')
NewlineRun(s) ==
    LET I == {j \in 1..Len(s) : s[j] # NL} IN
    IF I = {} THEN Len(s) ELSE Min(I) - 1

\* One call of lexer.token() with the master regular expression at the head
\* of the non-empty input s: the rules in PLY's order (function rules in
\* source order, then the string rules, longest pattern first).
\* kind: "tok" (a token is returned), "skip" (nothing returned, scanning goes
\* on), "error" (PLY raises LexError: a rule returned an unknown token type).
LexStep(s, line, paren) ==
    LET h == Head(s) IN
    IF h \in {SP, TAB}                                      \* t_ignore
    THEN [kind |-> "skip", rest |-> Tail(s), lineno |-> line]
    ELSE IF IsDigits(h)                                     \* t_NUMBER
    THEN [kind |-> "tok", tok |-> Tok("NUMBER", <<IntText(h)>>, line),
          rest |-> Tail(s), lineno |-> line]
    ELSE IF h = QUOTE /\ StringEnd(s, 2) # 0                \* t_STRING
    THEN LET e == StringEnd(s, 2) IN
         [kind |-> "tok", tok |-> Tok("STRING", SubSeq(s, 2, e - 1), line),
          rest |-> From(s, e + 1), lineno |-> line]
    ELSE IF PrintPostfixEnd(s) # 0                          \* t_PRINT_POSTFIX
    THEN LET k == PrintPostfixEnd(s) IN
         [kind |-> "tok", tok |-> Tok("CHEPPU", PrintPostfixValue(s), line),
          rest |-> RestAfter(s[k], "cheppu") \o From(s, k + 1), lineno |-> line]
    ELSE IF MultiwordEnd(s) # 0                             \* t_MULTIWORD_KEYWORD
    THEN LET k == MultiwordEnd(s) IN
         [kind |-> "tok",
          tok |-> Tok("TELUGU_KEYWORD", <<MULTI_WORD_KEYWORDS[h][2]>>, line),
          rest |-> RestAfter(s[k], MULTI_WORD_KEYWORDS[h][1]) \o From(s, k + 1),
          lineno |-> line]
    ELSE IF ForLoopMatch(s) # <<>>                          \* t_FOR_LOOP_PATTERN
    THEN LET m == ForLoopMatch(s) IN
         [kind |-> "tok",
          tok |-> Tok("TELUGU_KEYWORD",
                      <<"for", SP, s[m[2]], SP, "in", SP, h>>, line),
          rest |-> RestAfter(s[m[3]], "ki") \o From(s, m[3] + 1), lineno |-> line]
    ELSE IF ConditionalEnd(s) # 0                           \* t_CONDITIONAL_PATTERN
    THEN LET e == ConditionalEnd(s)
             g == ConditionalGroup(s, e)
         IN  IF g[1]
             THEN [kind |-> "tok",
                   tok |-> Tok("TELUGU_KEYWORD", <<"if", SP>> \o g[2], line),
                   rest |-> RestAfter(s[e], "aite") \o From(s, e + 1),
                   lineno |-> line]
             ELSE [kind |-> "error", rest |-> <<>>, lineno |-> line]
    ELSE IF IsWordAtom(h)                                   \* t_IDENTIFIER
    THEN [kind |-> "tok", tok |-> IdentifierToken(h, line),
          rest |-> Tail(s), lineno |-> line]
    ELSE IF h = NL                                          \* t_NEWLINE
    THEN LET n == NewlineRun(s) IN
         IF paren = 0
         THEN [kind |-> "tok", tok |-> Tok("NEWLINE", SubSeq(s, 1, n), line),
               rest |-> From(s, n + 1), lineno |-> line + n]
         ELSE [kind |-> "skip", rest |-> From(s, n + 1), lineno |-> line + n]
    \* t_WHITESPACE r'[ \t]+' can never match: t_ignore takes those characters
    ELSE IF Len(s) >= 2 /\ TwoCharType(h, s[2]) # ""        \* t_EQUALS, t_LE, ...
    THEN [kind |-> "tok", tok |-> Tok(TwoCharType(h, s[2]), <<h, s[2]>>, line),
          rest |-> From(s, 3), lineno |-> line]
    ELSE IF OneCharType(h) # ""                             \* t_PLUS, ...
    THEN [kind |-> "tok", tok |-> Tok(OneCharType(h), <<h>>, line),
          rest |-> Tail(s), lineno |-> line]
    ELSE [kind |-> "skip", rest |-> Tail(s), lineno |-> line]  \* t_error: skip(1)

\* TengLexer.tokenize: the loop over lexer.token() until the input is used up.
\* The line counter and the parenthesis counter are fields of the lexer
\* instance: they start from the values the instance holds.
RECURSIVE TokenizeLoop(_, _, _, _)
TokenizeLoop(s, line, paren, acc) ==
    IF s = <<>>
    THEN [error |-> "", tokens |-> acc, lineno |-> line, paren_count |-> paren]
    ELSE LET r == LexStep(s, line, paren) IN
         IF r.kind = "error"
         THEN [error |-> "LexError", tokens |-> acc, lineno |-> line,
               paren_count |-> paren]
         ELSE IF r.kind = "skip"
         THEN TokenizeLoop(r.rest, r.lineno, paren, acc)
         ELSE TokenizeLoop(r.rest, r.lineno, TrackParentheses(paren, r.tok),
                           Append(acc, r.tok))

tokenize(s, line, paren) == TokenizeLoop(s, line, paren, <<>>)

(***************************************************************************)
(* Tree nodes (src/src/ast_nodes.py): records tagged with the class name.  *)
(* A constructor that raises TypeError is modelled by a result record      *)
(* carrying the error.                                                     *)
(***************************************************************************)
NoneNode == [kind |-> "None"]

\* classes derived from Expression
ExpressionKinds ==
    {"Identifier", "StringLiteral", "NumberLiteral", "BooleanLiteral",
     "ListLiteral", "BinaryOperation", "UnaryOperation", "FunctionCall",
     "MethodCall", "AttributeAccess"}

\* isinstance(n, Expression)
IsExpression(n) == n.kind \in ExpressionKinds

\* the outcome of a parsing function: the value it returns with the stream
\* position it leaves (1-based: stream.pos + 1), or the exception it raises
Ok(node, pos) == [err |-> "", msg |-> <<>>, node |-> node, pos |-> pos]
Raise(kind, msg) == [err |-> kind, msg |-> msg, node |-> NoneNode, pos |-> 0]

\* sequencing: an exception raised by a step ends the enclosing call, else
\* the rest of the call goes on with the step's result
Then(r, rest(_)) == IF r.err # "" THEN r ELSE rest(r)

Identifier(name) == [kind |-> "Identifier", name |-> name]
StringLiteral(value) == [kind |-> "StringLiteral", value |-> value]
NumberLiteral(value) == [kind |-> "NumberLiteral", value |-> value]
BooleanLiteral(value) == [kind |-> "BooleanLiteral", value |-> value]
ListLiteral(elements) == [kind |-> "ListLiteral", elements |-> elements]
FunctionCall(name, arguments) ==
    [kind |-> "FunctionCall", name |-> name, arguments |-> arguments]
MethodCall(object_expr, method_name, arguments) ==
    [kind |-> "MethodCall", object_expr |-> object_expr,
     method_name |-> method_name, arguments |-> arguments]
AttributeAccess(object_expr, attribute_name) ==
    [kind |-> "AttributeAccess", object_expr |-> object_expr,
     attribute_name |-> attribute_name]

\* BinaryOperation.__init__ at the stream position pos
BinaryOperation(left, operator, right, pos) ==
    IF ~IsExpression(left)
    THEN Raise("TypeError", <<"left operand must be an Expression">>)
    ELSE IF ~IsExpression(right)
    THEN Raise("TypeError", <<"right operand must be an Expression">>)
    ELSE Ok([kind |-> "BinaryOperation", left |-> left, operator |-> operator,
             right |-> right], pos)

\* UnaryOperation.__init__
UnaryOperation(operator, operand, pos) ==
    IF ~IsExpression(operand)
    THEN Raise("TypeError", <<"operand must be an Expression">>)
    ELSE Ok([kind |-> "UnaryOperation", operator |-> operator,
             operand |-> operand], pos)

(***************************************************************************)
(* repr(node), which the parser uses as the name of a call whose callee is *)
(* not a plain identifier (str(expr)).  Strings hold no single quote.      *)
(***************************************************************************)
\* repr of a str: single quotes, backslashes doubled, newlines escaped
RECURSIVE ReprChars(_)
ReprChars(s) ==
    IF s = <<>> THEN <<>>
    ELSE (IF Head(s) = BSLASH THEN <<BSLASH, BSLASH>>
          ELSE IF Head(s) = NL THEN <<BSLASH, "n">>
          ELSE IF Head(s) = TAB THEN <<BSLASH, "t">>
          ELSE <<Head(s)>>) \o ReprChars(Tail(s))

ReprStr(s) == <<"'">> \o ReprChars(s) \o <<"'">>

RECURSIVE Repr(_), ReprList(_)
ReprList(ns) ==
    IF ns = <<>> THEN <<>>
    ELSE Repr(Head(ns)) \o (IF Len(ns) > 1 THEN <<",", SP>> ELSE <<>>)
         \o ReprList(Tail(ns))

Repr(n) ==
    CASE n.kind = "None" -> <<"None">>
      [] n.kind = "Identifier" ->
            <<"Identifier", "(", "name", "=">> \o ReprStr(n.name) \o <<")">>
      [] n.kind = "StringLiteral" ->
            <<"StringLiteral", "(", "value", "=">> \o ReprStr(n.value) \o <<")">>
      [] n.kind = "NumberLiteral" ->
            <<"NumberLiteral", "(", "value", "=">> \o n.value \o <<")">>
      [] n.kind = "BooleanLiteral" ->
            <<"BooleanLiteral", "(", "value", "=",
              IF n.value THEN "True" ELSE "False", ")">>
      [] n.kind = "ListLiteral" ->
            <<"ListLiteral", "(", "elements", "=", "[">> \o ReprList(n.elements)
            \o <<"]", ")">>
      [] n.kind = "BinaryOperation" ->
            <<"BinaryOperation", "(", "left", "=">> \o Repr(n.left)
            \o <<",", SP, "operator", "=">> \o ReprStr(n.operator)
            \o <<",", SP, "right", "=">> \o Repr(n.right) \o <<")">>
      [] n.kind = "UnaryOperation" ->
            <<"UnaryOperation", "(", "operator", "=">> \o ReprStr(n.operator)
            \o <<",", SP, "operand", "=">> \o Repr(n.operand) \o <<")">>
      [] n.kind = "FunctionCall" ->
            <<"FunctionCall", "(", "name", "=">> \o ReprStr(n.name)
            \o <<",", SP, "arguments", "=", "[">> \o ReprList(n.arguments)
            \o <<"]", ")">>
      [] n.kind = "MethodCall" ->
            <<"MethodCall", "(", "object", "=">> \o Repr(n.object_expr)
            \o <<",", SP, "method", "=">> \o n.method_name
            \o <<",", SP, "args", "=", "[">> \o ReprList(n.arguments)
            \o <<"]", ")">>
      [] n.kind = "AttributeAccess" ->
            <<"AttributeAccess", "(", "object", "=">> \o Repr(n.object_expr)
            \o <<",", SP, "attribute", "=">> \o n.attribute_name \o <<")">>

(***************************************************************************)
(* TokenStream (src/src/parser.py): an immutable token list ts and a       *)
(* position p                                                              *)
(***************************************************************************)
\* stream.at_end()
AtEnd(ts, p) == p > Len(ts)

\* stream.match(*token_types)
Match(ts, p, types) == p <= Len(ts) /\ ts[p].type \in types

\* the current token is a TELUGU_KEYWORD with this value
IsKeyword(ts, p, value) ==
    p <= Len(ts) /\ ts[p].type = "TELUGU_KEYWORD" /\ ts[p].value = value

\* stream.expect(token_type): the position after the token, or SyntaxError
Expect(ts, p, type) ==
    IF Match(ts, p, {type}) THEN Ok(ts[p], p + 1)
    ELSE Raise("SyntaxError",
               <<"Expected", type, "got", IF p <= Len(ts) THEN ts[p].type ELSE "EOF">>)

(***************************************************************************)
(* Expression parsing: TengParser._parse_expression and below              *)
(***************************************************************************)
\* the token types each binary level of the precedence climb consumes
\* (_parse_equality, _parse_comparison, _parse_addition, _parse_multiplication)
\* the level table with equality and the relational operators on one level
C24_OneComparisonLevel(level) ==
    CASE level = 3 -> {}
      [] level = 4 -> {"EQUALS", "NE", "LT", "LE", "GT", "GE", "IN"}
      [] level = 5 -> {"PLUS", "MINUS"}
      [] level = 6 -> {"TIMES", "DIVIDE", "MODULO"}

LevelTypes(level) ==
    CASE level = 3 -> {"EQUALS", "NE"}
      [] level = 4 -> {"LT", "LE", "GT", "GE", "IN"}
      [] level = 5 -> {"PLUS", "MINUS"}
      [] level = 6 -> {"TIMES", "DIVIDE", "MODULO"}

RECURSIVE parse_expression(_, _), parse_logical_or(_, _), logical_or_loop(_, _, _),
          parse_logical_and(_, _), logical_and_loop(_, _, _),
          parse_level(_, _, _), parse_operand(_, _, _), level_loop(_, _, _, _),
          parse_unary(_, _), parse_primary(_, _), primary_suffixes(_, _, _),
          parse_arguments(_, _, _, _, _)

parse_expression(ts, p) == parse_logical_or(ts, p)

logical_or_loop(ts, expr, p) ==
    IF IsKeyword(ts, p, <<"or">>)
    THEN Then(parse_logical_and(ts, p + 1), LAMBDA right :
         Then(BinaryOperation(expr, <<"or">>, right.node, right.pos), LAMBDA b :
         logical_or_loop(ts, b.node, b.pos)))
    ELSE Ok(expr, p)

parse_logical_or(ts, p) ==
    Then(parse_logical_and(ts, p), LAMBDA r : logical_or_loop(ts, r.node, r.pos))

logical_and_loop(ts, expr, p) ==
    IF IsKeyword(ts, p, <<"and">>)
    THEN Then(parse_level(3, ts, p + 1), LAMBDA right :
         Then(BinaryOperation(expr, <<"and">>, right.node, right.pos), LAMBDA b :
         logical_and_loop(ts, b.node, b.pos)))
    ELSE Ok(expr, p)

parse_logical_and(ts, p) ==
    Then(parse_level(3, ts, p), LAMBDA r : logical_and_loop(ts, r.node, r.pos))

\* the operand of a binary level: the next level up, unary above level 6
parse_operand(level, ts, p) ==
    IF level = 6 THEN parse_unary(ts, p) ELSE parse_level(level + 1, ts, p)

\* the while loop of a binary level: operator token, right operand one level up
level_loop(level, ts, expr, p) ==
    IF Match(ts, p, LevelTypes(level))
    THEN Then(parse_operand(level, ts, p + 1), LAMBDA right :
         Then(BinaryOperation(expr, ts[p].value, right.node, right.pos), LAMBDA b :
         level_loop(level, ts, b.node, b.pos)))
    ELSE Ok(expr, p)

parse_level(level, ts, p) ==
    Then(parse_operand(level, ts, p), LAMBDA r : level_loop(level, ts, r.node, r.pos))

parse_equality(ts, p) == parse_level(3, ts, p)
parse_comparison(ts, p) == parse_level(4, ts, p)
parse_addition(ts, p) == parse_level(5, ts, p)
parse_multiplication(ts, p) == parse_level(6, ts, p)

parse_unary(ts, p) ==
    IF Match(ts, p, {"MINUS", "PLUS"}) \/ IsKeyword(ts, p, <<"not">>)
    THEN Then(parse_unary(ts, p + 1), LAMBDA r :
         UnaryOperation(ts[p].value, r.node, r.pos))
    ELSE parse_primary(ts, p)

\* a comma-separated list of expressions up to (not including) the closing
\* token: the loop shared by call arguments, method arguments, list elements
\* and the arguments of a postfix print
parse_arguments(ts, p, close, acc, what) ==
    IF Match(ts, p, {close}) THEN Ok(acc, p)
    ELSE Then(parse_expression(ts, p), LAMBDA r :
         IF Match(ts, r.pos, {"COMMA"})
         THEN parse_arguments(ts, r.pos + 1, close, Append(acc, r.node), what)
         ELSE IF ~Match(ts, r.pos, {close})
         THEN Raise("SyntaxError",
                    <<"Expected ',' or", IF close = "RBRACKET" THEN "']'" ELSE "')'",
                      "in", what>>)
         ELSE Ok(Append(acc, r.node), r.pos))

\* the name a call gets: the identifier's name, str(expr) for any other callee
CalleeName(expr) == IF expr.kind = "Identifier" THEN expr.name ELSE Repr(expr)

\* the loop of _parse_primary after an identifier: .name, .name(args), (args)
primary_suffixes(ts, expr, p) ==
    IF Match(ts, p, {"DOT"})
    THEN Then(Expect(ts, p + 1, "IDENTIFIER"), LAMBDA m :
         IF Match(ts, p + 2, {"LPAREN"})
         THEN Then(parse_arguments(ts, p + 3, "RPAREN", <<>>, "method call"), LAMBDA a :
              primary_suffixes(ts, MethodCall(expr, m.node.value, a.node), a.pos + 1))
         ELSE primary_suffixes(ts, AttributeAccess(expr, m.node.value), p + 2))
    ELSE IF Match(ts, p, {"LPAREN"})
    THEN Then(parse_arguments(ts, p + 1, "RPAREN", <<>>, "function call"), LAMBDA a :
         primary_suffixes(ts, FunctionCall(CalleeName(expr), a.node), a.pos + 1))
    ELSE Ok(expr, p)

parse_primary(ts, p) ==
    IF AtEnd(ts, p) THEN Raise("SyntaxError", <<"Unexpected end of input">>)
    ELSE LET current == ts[p] IN
    CASE current.type = "NUMBER" -> Ok(NumberLiteral(current.value), p + 1)
      [] current.type = "STRING" -> Ok(StringLiteral(current.value), p + 1)
      [] current.type = "IDENTIFIER" ->
            primary_suffixes(ts, Identifier(current.value), p + 1)
      [] current.type = "TELUGU_KEYWORD" ->
            IF current.value = <<"True">> THEN Ok(BooleanLiteral(TRUE), p + 1)
            ELSE IF current.value = <<"False">> THEN Ok(BooleanLiteral(FALSE), p + 1)
            ELSE Ok(NoneNode, p)       \* falls off the end: returns None
      [] current.type = "LPAREN" ->
            Then(parse_expression(ts, p + 1), LAMBDA r :
            Then(Expect(ts, r.pos, "RPAREN"), LAMBDA c : Ok(r.node, c.pos)))
      [] current.type = "LBRACKET" ->
            Then(parse_arguments(ts, p + 1, "RBRACKET", <<>>, "list literal"), LAMBDA a :
            Ok(ListLiteral(a.node), a.pos + 1))
      [] OTHER -> Raise("SyntaxError", <<"Unexpected token", current.type>>)

(***************************************************************************)
(* Statement nodes whose constructors check their operand                  *)
(***************************************************************************)
AssignmentStatement(variable, value, pos) ==
    IF ~IsExpression(value)
    THEN Raise("TypeError", <<"value must be an Expression">>)
    ELSE Ok([kind |-> "AssignmentStatement", variable |-> variable,
             value |-> value], pos)

PrintStatement(arguments) == [kind |-> "PrintStatement", arguments |-> arguments]

ElifBlock(condition, body, pos) ==
    IF ~IsExpression(condition)
    THEN Raise("TypeError", <<"condition must be an Expression">>)
    ELSE Ok([kind |-> "ElifBlock", condition |-> condition, body |-> body], pos)

IfStatement(condition, then_block, else_block, elif_blocks, pos) ==
    IF ~IsExpression(condition)
    THEN Raise("TypeError", <<"condition must be an Expression">>)
    ELSE Ok([kind |-> "IfStatement", condition |-> condition,
             then_block |-> then_block, else_block |-> else_block,
             elif_blocks |-> elif_blocks], pos)

ForStatement(variable, iterable, body, pos) ==
    IF ~IsExpression(iterable)
    THEN Raise("TypeError", <<"iterable must be an Expression">>)
    ELSE Ok([kind |-> "ForStatement", variable |-> variable,
             iterable |-> iterable, body |-> body], pos)

WhileStatement(condition, body, pos) ==
    IF ~IsExpression(condition)
    THEN Raise("TypeError", <<"condition must be an Expression">>)
    ELSE Ok([kind |-> "WhileStatement", condition |-> condition, body |-> body], pos)

FunctionDefinition(name, parameters, body) ==
    [kind |-> "FunctionDefinition", name |-> name, parameters |-> parameters,
     body |-> body]

ReturnStatement(value) == [kind |-> "ReturnStatement", value |-> value]
BreakStatement == [kind |-> "BreakStatement"]
ContinueStatement == [kind |-> "ContinueStatement"]
ExpressionStatement(expression) ==
    [kind |-> "ExpressionStatement", expression |-> expression]
Program(statements) == [kind |-> "Program", statements |-> statements]

(***************************************************************************)
(* Source lines and indentation                                            *)
(***************************************************************************)
\* input_text.split("\n")
RECURSIVE SplitLines(_)
SplitLines(s) ==
    LET i == IndexFrom(s, NL, 1) IN
    IF i = 0 THEN <<s>> ELSE <<SubSeq(s, 1, i - 1)>> \o SplitLines(From(s, i + 1))

RECURSIVE calculate_line_indent(_)
calculate_line_indent(line) ==
    IF line = <<>> THEN 0
    ELSE IF Head(line) = SP THEN 1 + calculate_line_indent(Tail(line))
    ELSE IF Head(line) = TAB THEN 8 + calculate_line_indent(Tail(line))
    ELSE 0

\* the indentation of the source line a token says it is on; -1 when the
\* source has no such line (line_num >= len(self.source_lines))
TokenLineIndent(src, t) ==
    LET lines == SplitLines(src) IN
    IF t.lineno - 1 < Len(lines) THEN calculate_line_indent(lines[t.lineno])
    ELSE -1

\* str.strip() and str.split()
RECURSIVE Strip(_)
Strip(s) ==
    IF s = <<>> THEN s
    ELSE IF IsSpace(Head(s)) THEN Strip(Tail(s))
    ELSE IF IsSpace(s[Len(s)]) THEN Strip(SubSeq(s, 1, Len(s) - 1))
    ELSE s

RECURSIVE SplitWords(_)
SplitWords(s) ==
    LET t == Strip(s) IN
    IF t = <<>> THEN <<>>
    ELSE LET I == {j \in 1..Len(t) : IsSpace(t[j])} IN
         IF I = {} THEN <<t>>
         ELSE <<SubSeq(t, 1, Min(I) - 1)>> \o SplitWords(From(t, Min(I)))

(***************************************************************************)
(* Lookahead predicates of statement dispatch                              *)
(***************************************************************************)
\* opening minus closing parentheses among ts[p..j]
Balance(ts, p, j) ==
    Cardinality({k \in p..j : ts[k].type = "LPAREN"})
    - Cardinality({k \in p..j : ts[k].type = "RPAREN"})

is_telugu_return_statement(ts, p) ==
    \E j \in (p + 1)..Len(ts) :
        /\ IsKeyword(ts, j, <<"return">>)
        /\ \A k \in (p + 1)..(j - 1) : ts[k].type # "NEWLINE"

is_telugu_postfix_print(ts, p) ==
    /\ Match(ts, p, {"LPAREN"})
    /\ LET J == {j \in p..Len(ts) : ts[j].type = "RPAREN" /\ Balance(ts, p, j) = 0} IN
       J # {} /\ IsKeyword(ts, Min(J) + 1, <<"print">>)

\* index of the first 'lo' (TELUGU_KEYWORD 'in') met at parenthesis depth
\* zero scanning from p to the end of the token list, 0 when there is none
FirstLoAtDepthZero(ts, p) ==
    LET C == {j \in p..Len(ts) : IsKeyword(ts, j, <<"in">>) /\ Balance(ts, p, j - 1) = 0}
    IN  IF C = {} THEN 0 ELSE Min(C)

is_telugu_for_loop(ts, p) ==
    LET j == FirstLoAtDepthZero(ts, p) IN
    /\ j # 0
    /\ Match(ts, j + 1, {"IDENTIFIER"})
    /\ Match(ts, j + 2, {"TELUGU_KEYWORD"})
    /\ Match(ts, j + 3, {"COLON"})

is_telugu_while_loop(ts, p) ==
    \E j \in p..(Len(ts) - 1) :
        /\ IsKeyword(ts, j, <<"while">>)
        /\ ts[j + 1].type = "COLON"
        /\ \A k \in p..j : ts[k].type # "NEWLINE"

is_incomplete_for_loop(ts, p) ==
    LET j == FirstLoAtDepthZero(ts, p) IN
    /\ j # 0
    /\ Match(ts, j + 1, {"IDENTIFIER"})
    /\ \/ ~Match(ts, j + 2, {"TELUGU_KEYWORD"})
       \/ ~Match(ts, j + 3, {"COLON"})

(***************************************************************************)
(* The lexer-packed print: _parse_print_statement and _split_arguments     *)
(***************************************************************************)
\* _split_arguments: cur is the part being collected, parts the finished ones
RECURSIVE split_arguments_loop(_, _, _, _)
split_arguments_loop(s, cur, in_quotes, parts) ==
    IF s = <<>>
    THEN IF Strip(cur) # <<>> THEN Append(parts, Strip(cur)) ELSE parts
    ELSE LET c == Head(s) IN
         IF c = QUOTE /\ (cur = <<>> \/ cur[Len(cur)] # BSLASH)
         THEN split_arguments_loop(Tail(s), Append(cur, c), ~in_quotes, parts)
         ELSE IF c = "," /\ ~in_quotes
         THEN split_arguments_loop(Tail(s), <<>>, in_quotes,
                  IF Strip(cur) # <<>> THEN Append(parts, Strip(cur)) ELSE parts)
         ELSE split_arguments_loop(Tail(s), Append(cur, c), in_quotes, parts)

split_arguments(args_str) == split_arguments_loop(args_str, <<>>, FALSE, <<>>)

\* part.replace(".", "")
RemoveDots(part) == SelectSeq(part, LAMBDA a : a # ".")

\* str.isdigit() of a part
IsDigitText(part) == part # <<>> /\ \A i \in 1..Len(part) : IsDigits(part[i])

\* str(float(part)) for a part made of digits and one dot
FloatText(part) ==
    IF part[1] = "." THEN <<"0", ".", FracText(part[2])>>
    ELSE IF part[Len(part)] = "." THEN <<IntText(part[1]), ".", "0">>
    ELSE <<IntText(part[1]), ".", FracText(part[3])>>

\* the node one comma-separated part of a packed print becomes
print_argument(part) ==
    IF part[1] = QUOTE /\ part[Len(part)] = QUOTE
    THEN Ok(StringLiteral(SubSeq(part, 2, Len(part) - 1)), 0)
    ELSE IF IsDigitText(part) THEN Ok(NumberLiteral(<<IntText(part[1])>>), 0)
    ELSE IF IsDigitText(RemoveDots(part))
    THEN IF Len(part) - Len(RemoveDots(part)) > 1
         THEN Raise("ValueError", <<"could not convert string to float">>)
         ELSE Ok(NumberLiteral(FloatText(part)), 0)
    ELSE Ok(Identifier(part), 0)

RECURSIVE print_arguments(_, _)
print_arguments(parts, acc) ==
    IF parts = <<>> THEN Ok(acc, 0)
    ELSE Then(print_argument(Head(parts)), LAMBDA a :
         print_arguments(Tail(parts), Append(acc, a.node)))

parse_print_statement(ts, p) ==
    LET print_call == ts[p].value
        args_str == SubSeq(print_call, 3, Len(print_call) - 1)
    IN  IF Strip(args_str) = <<>> THEN Ok(PrintStatement(<<>>), p + 1)
        ELSE Then(print_arguments(split_arguments(args_str), <<>>), LAMBDA a :
             Ok(PrintStatement(a.node), p + 1))

(***************************************************************************)
(* Statement parsing                                                       *)
(***************************************************************************)
EmptyBody(what) ==
    Raise("SyntaxError", <<what, "cannot have empty body">>)

\* _get_current_indentation_level: the indentation of the line of the token
\* before the next NEWLINE, or of the current token when the NEWLINE is the
\* current token or there is none
get_current_indentation_level(src, ts, p) ==
    LET N == {j \in p..Len(ts) : ts[j].type = "NEWLINE"} IN
    IF N # {} /\ Min(N) > p
    THEN LET i == TokenLineIndent(src, ts[Min(N) - 1]) IN IF i < 0 THEN 0 ELSE i
    ELSE IF p <= Len(ts)
    THEN LET i == TokenLineIndent(src, ts[p]) IN IF i < 0 THEN 0 ELSE i
    ELSE 0

\* position after the run of NEWLINE tokens at p
RECURSIVE SkipNewlines(_, _)
SkipNewlines(ts, p) ==
    IF Match(ts, p, {"NEWLINE"}) THEN SkipNewlines(ts, p + 1) ELSE p

RECURSIVE parse_statement(_, _, _), parse_telugu_statement(_, _, _),
          parse_if_statement(_, _, _), elif_else_loop(_, _, _, _, _, _),
          parse_function_definition(_, _, _),
          parse_telugu_for_loop(_, _, _), parse_telugu_while_loop(_, _, _),
          parse_preprocessed_for_loop(_, _, _, _),
          parse_block(_, _, _), parse_indented_block(_, _, _, _),
          indented_block_loop(_, _, _, _, _)

parse_block(src, ts, p) ==
    parse_indented_block(src, ts, p, get_current_indentation_level(src, ts, p))

\* the main loop of _parse_indented_block
indented_block_loop(src, ts, p, base_indent, statements) ==
    IF AtEnd(ts, p) THEN Ok(statements, p)
    ELSE IF ts[p].type = "NEWLINE"
    THEN IF Len(ts[p].value) >= 2                  \* "\n\n" in value: blank line
         THEN Ok(statements, p + 1)
         ELSE indented_block_loop(src, ts, p + 1, base_indent, statements)
    ELSE IF IsKeyword(ts, p, <<"else">>) \/ IsKeyword(ts, p, <<"elif">>)
    THEN Ok(statements, p)
    ELSE IF LET i == TokenLineIndent(src, ts[p]) IN i >= 0 /\ i <= base_indent
    THEN Ok(statements, p)
    ELSE Then(parse_statement(src, ts, p), LAMBDA r :
         IF r.node.kind = "None" THEN Ok(statements, r.pos)
         ELSE indented_block_loop(src, ts, r.pos, base_indent,
                                  Append(statements, r.node)))

\* _parse_indented_block; with no token left the fallback _parse_simple_block
\* runs, which at the end of input returns no statement
parse_indented_block(src, ts, p, base_indent) ==
    LET q == SkipNewlines(ts, p) IN
    IF AtEnd(ts, q) THEN Ok(<<>>, q)
    ELSE indented_block_loop(src, ts, q, base_indent, <<>>)

\* _parse_expression_until_while: the tokens before the first 'while' keyword
\* are parsed as an expression in a stream of their own
parse_expression_until_while(ts, p) ==
    LET W == {j \in p..Len(ts) : IsKeyword(ts, j, <<"while">>)}
        w == IF W = {} THEN Len(ts) + 1 ELSE Min(W)
    IN  IF w = p THEN Raise("SyntaxError", <<"Missing condition in while loop">>)
        ELSE Then(parse_expression(SubSeq(ts, p, w - 1), 1), LAMBDA r : Ok(r.node, w))

\* a keyword token is expected and its value must be the given one
ExpectKeyword(ts, p, value, message) ==
    Then(Expect(ts, p, "TELUGU_KEYWORD"), LAMBDA k :
    IF k.node.value # value THEN Raise("SyntaxError", <<message>>) ELSE k)

parse_telugu_while_loop(src, ts, p) ==
    Then(parse_expression_until_while(ts, p), LAMBDA c :
    Then(ExpectKeyword(ts, c.pos, <<"while">>, "Expected 'while' keyword"), LAMBDA k :
    Then(Expect(ts, k.pos, "COLON"), LAMBDA col :
    Then(parse_block(src, ts, col.pos), LAMBDA body :
    IF body.node = <<>> THEN EmptyBody("While loop")
    ELSE WhileStatement(c.node, body.node, body.pos)))))

parse_telugu_for_loop(src, ts, p) ==
    Then(parse_expression(ts, p), LAMBDA it :
    Then(ExpectKeyword(ts, it.pos, <<"in">>, "Expected 'lo' keyword"), LAMBDA lo :
    Then(Expect(ts, lo.pos, "IDENTIFIER"), LAMBDA var :
    Then(Expect(ts, var.pos, "TELUGU_KEYWORD"), LAMBDA ki :
    Then(Expect(ts, ki.pos, "COLON"), LAMBDA col :
    Then(parse_block(src, ts, col.pos), LAMBDA body :
    IF body.node = <<>> THEN EmptyBody("For loop")
    ELSE ForStatement(var.node.value, it.node, body.node, body.pos)))))))

\* _parse_preprocessed_for_loop: the keyword token (already consumed, p is
\* the position after it) carries "for <var> in <iterable>"
parse_preprocessed_for_loop(src, ts, p, for_statement) ==
    LET parts == SplitWords(for_statement) IN
    IF Len(parts) # 4 \/ parts[1] # <<"for">> \/ parts[3] # <<"in">>
    THEN Raise("SyntaxError", <<"Invalid for loop format">>)
    ELSE Then(Expect(ts, p, "COLON"), LAMBDA col :
         Then(parse_block(src, ts, col.pos), LAMBDA body :
         ForStatement(parts[2], Identifier(parts[4]), body.node, body.pos)))

\* the 'aite' step of a conditional header: a keyword whose value is empty
\* is consumed
SkipEmptyKeyword(ts, p) == IF IsKeyword(ts, p, <<>>) THEN p + 1 ELSE p

\* the loop of _parse_if_statement over elif and else clauses
elif_else_loop(src, ts, p, condition, then_block, elif_blocks) ==
    IF IsKeyword(ts, p, <<"elif">>)
    THEN Then(parse_expression(ts, p + 1), LAMBDA c :
         Then(Expect(ts, SkipEmptyKeyword(ts, c.pos), "COLON"), LAMBDA col :
         Then(parse_block(src, ts, col.pos), LAMBDA body :
         Then(ElifBlock(c.node, body.node, body.pos), LAMBDA e :
         elif_else_loop(src, ts, e.pos, condition, then_block,
                        Append(elif_blocks, e.node))))))
    ELSE IF IsKeyword(ts, p, <<"else">>)
    THEN Then(Expect(ts, p + 1, "COLON"), LAMBDA col :
         Then(parse_block(src, ts, col.pos), LAMBDA body :
         IfStatement(condition, then_block, body.node, elif_blocks, body.pos)))
    ELSE IfStatement(condition, then_block, <<>>, elif_blocks, p)

\* the condition of an if header with the keyword that may follow it: an
\* empty-valued keyword is consumed, 'not' is consumed and negates
if_condition(ts, c) ==
    IF IsKeyword(ts, c.pos, <<"not">>) THEN UnaryOperation(<<"not">>, c.node, c.pos + 1)
    ELSE Ok(c.node, SkipEmptyKeyword(ts, c.pos))

\* _parse_if_statement: p is the position after the 'if' keyword
parse_if_statement(src, ts, p) ==
    Then(parse_expression(ts, p), LAMBDA c :
    Then(if_condition(ts, c), LAMBDA cond :
    Then(Expect(ts, cond.pos, "COLON"), LAMBDA col :
    Then(parse_block(src, ts, col.pos), LAMBDA then_block :
    IF then_block.node = <<>> THEN EmptyBody("If statement")
    ELSE elif_else_loop(src, ts, then_block.pos, cond.node, then_block.node, <<>>)))))

\* the parameter loop of _parse_function_definition
RECURSIVE parse_parameters(_, _, _)
parse_parameters(ts, p, acc) ==
    IF Match(ts, p, {"RPAREN"}) THEN Ok(acc, p)
    ELSE Then(Expect(ts, p, "IDENTIFIER"), LAMBDA t :
         IF Match(ts, t.pos, {"COMMA"})
         THEN parse_parameters(ts, t.pos + 1, Append(acc, t.node.value))
         ELSE IF ~Match(ts, t.pos, {"RPAREN"})
         THEN Raise("SyntaxError", <<"Expected ',' or ')' in parameter list">>)
         ELSE Ok(Append(acc, t.node.value), t.pos))

\* _parse_function_definition: p is the position after the 'def' keyword
parse_function_definition(src, ts, p) ==
    Then(Expect(ts, p, "IDENTIFIER"), LAMBDA name :
    Then(Expect(ts, name.pos, "LPAREN"), LAMBDA lp :
    Then(parse_parameters(ts, lp.pos, <<>>), LAMBDA params :
    Then(Expect(ts, params.pos + 1, "COLON"), LAMBDA col :
    Then(parse_block(src, ts, col.pos), LAMBDA body :
    IF body.node = <<>> THEN EmptyBody("Function")
    ELSE Ok(FunctionDefinition(name.node.value, params.node, body.node), body.pos))))))

\* _parse_telugu_return_statement: <expr> ivvu
parse_telugu_return_statement(ts, p) ==
    Then(parse_expression(ts, p), LAMBDA v :
    Then(ExpectKeyword(ts, v.pos, <<"return">>, "Expected 'ivvu' (return)"), LAMBDA k :
    Ok(ReturnStatement(v.node), k.pos)))

\* _parse_return_statement: p is the position after the 'return' keyword
parse_return_statement(ts, p) ==
    IF Match(ts, p, {"NEWLINE"}) \/ AtEnd(ts, p) THEN Ok(ReturnStatement(NoneNode), p)
    ELSE Then(parse_expression(ts, p), LAMBDA v : Ok(ReturnStatement(v.node), v.pos))

\* _parse_telugu_postfix_print: ( args ) cheppu from separate tokens
parse_telugu_postfix_print(ts, p) ==
    Then(Expect(ts, p, "LPAREN"), LAMBDA lp :
    Then(parse_arguments(ts, lp.pos, "RPAREN", <<>>, "print statement"), LAMBDA a :
    Then(ExpectKeyword(ts, a.pos + 1, <<"print">>, "Expected 'cheppu' (print)"), LAMBDA k :
    Ok(PrintStatement(a.node), k.pos))))

parse_assignment(ts, p) ==
    Then(Expect(ts, p, "IDENTIFIER"), LAMBDA var :
    Then(Expect(ts, var.pos, "ASSIGN"), LAMBDA eq :
    Then(parse_expression(ts, eq.pos), LAMBDA v :
    AssignmentStatement(var.node.value, v.node, v.pos))))

parse_expression_statement(ts, p) ==
    Then(parse_expression(ts, p), LAMBDA e : Ok(ExpressionStatement(e.node), e.pos))

\* the statement a parser that leaves every keyword in the stream returns
C29_KeywordLeftInStream(src, ts, p) == Ok(NoneNode, p)

\* _parse_telugu_statement: consumes the keyword token and dispatches on its
\* value; any other keyword is dropped and None is returned
parse_telugu_statement(src, ts, p) ==
    LET keyword_value == ts[p].value IN
    IF keyword_value = <<"if">> THEN parse_if_statement(src, ts, p + 1)
    ELSE IF keyword_value = <<"def">> THEN parse_function_definition(src, ts, p + 1)
    ELSE IF keyword_value = <<"return">> THEN parse_return_statement(ts, p + 1)
    ELSE IF keyword_value = <<"break">> THEN Ok(BreakStatement, p + 1)
    ELSE IF keyword_value = <<"continue">> THEN Ok(ContinueStatement, p + 1)
    ELSE IF Len(keyword_value) >= 2 /\ SubSeq(keyword_value, 1, 2) = <<"for", SP>>
    THEN parse_preprocessed_for_loop(src, ts, p + 1, keyword_value)
    ELSE Ok(NoneNode, p + 1)

\* the IDENTIFIER branch of _parse_statement
parse_identifier_statement(ts, p) ==
    IF Match(ts, p + 1, {"ASSIGN"}) THEN parse_assignment(ts, p)
    ELSE IF IsKeyword(ts, p + 1, <<"return">>) THEN parse_telugu_return_statement(ts, p)
    ELSE IF is_incomplete_for_loop(ts, p)
    THEN Raise("SyntaxError", <<"Incomplete for loop: missing 'ki' or ':'">>)
    ELSE parse_expression_statement(ts, p)

\* _parse_statement
parse_statement(src, ts, p) ==
    IF AtEnd(ts, p) THEN Ok(NoneNode, p)
    ELSE IF ts[p].type = "TELUGU_KEYWORD" THEN parse_telugu_statement(src, ts, p)
    ELSE IF ts[p].type = "CHEPPU" THEN parse_print_statement(ts, p)
    ELSE IF is_telugu_return_statement(ts, p) THEN parse_telugu_return_statement(ts, p)
    ELSE IF is_telugu_postfix_print(ts, p) THEN parse_telugu_postfix_print(ts, p)
    ELSE IF is_telugu_for_loop(ts, p) THEN parse_telugu_for_loop(src, ts, p)
    ELSE IF is_telugu_while_loop(ts, p) THEN parse_telugu_while_loop(src, ts, p)
    ELSE IF ts[p].type = "IDENTIFIER" THEN parse_identifier_statement(ts, p)
    ELSE parse_expression_statement(ts, p)

\* _parse_program
RECURSIVE parse_program(_, _, _, _)
parse_program(src, ts, p, statements) ==
    IF AtEnd(ts, p) THEN Ok(statements, p)
    ELSE IF ts[p].type = "NEWLINE" THEN parse_program(src, ts, p + 1, statements)
    ELSE Then(parse_statement(src, ts, p), LAMBDA r :
         parse_program(src, ts, r.pos,
             IF r.node.kind = "None" THEN statements ELSE Append(statements, r.node)))

\* the Program parse returns, or the exception parsing raised
program_result(statements) ==
    IF statements.err # "" THEN statements ELSE Ok(Program(statements.node), statements.pos)

\* the result of TengParser.parse with the token list and the lexer state
parse_result(l, r) ==
    [tokens |-> l.tokens, lineno |-> l.lineno, paren_count |-> l.paren_count,
     err |-> r.err, msg |-> r.msg, node |-> r.node]

\* TengParser.parse(input_text) on a parser whose lexer holds the line
\* counter line and the parenthesis count paren: the token list, the lexer
\* state left behind, and the Program returned or the exception raised
parse_tokens(input_text, l) ==
    IF l.error # "" THEN parse_result(l, Raise(l.error, <<>>))
    ELSE parse_result(l, program_result(parse_program(input_text, l.tokens, 1, <<>>)))

parse(input_text, line, paren) == parse_tokens(input_text, tokenize(input_text, line, paren))

(***************************************************************************)
(* Rendering: to_python of every node class (src/src/ast_nodes.py).  The   *)
(* result is Ok(text, 0) or the exception the method raises.               *)
(***************************************************************************)
\* an indentation that does not grow with the nesting depth
C18_IndentOneLevel(indent_level) ==
    IF indent_level = 0 THEN <<>> ELSE <<SP, SP, SP, SP>>

\* ASTNode._indent: "    " * indent_level
RECURSIVE indent(_)
indent(indent_level) ==
    IF indent_level = 0 THEN <<>> ELSE <<SP, SP, SP, SP>> \o indent(indent_level - 1)

\* sep.join(parts)
RECURSIVE Join(_, _)
Join(parts, sep) ==
    IF parts = <<>> THEN <<>>
    ELSE IF Len(parts) = 1 THEN parts[1]
    ELSE parts[1] \o sep \o Join(Tail(parts), sep)

\* str.rstrip()
RECURSIVE Rstrip(_)
Rstrip(s) ==
    IF s # <<>> /\ IsSpace(s[Len(s)]) THEN Rstrip(SubSeq(s, 1, Len(s) - 1)) ELSE s

\* value.replace("\\", "\\\\").replace('"', '\\"')
RECURSIVE Escape(_)
Escape(s) ==
    IF s = <<>> THEN <<>>
    ELSE (IF Head(s) = BSLASH THEN <<BSLASH, BSLASH>>
          ELSE IF Head(s) = QUOTE THEN <<BSLASH, QUOTE>>
          ELSE <<Head(s)>>) \o Escape(Tail(s))

\* BinaryOperation._get_precedence
get_precedence(operator) ==
    CASE operator \in {<<"or">>, <<"leda">>} -> 1
      [] operator \in {<<"and">>, <<"mariyu">>} -> 2
      [] operator \in {<<"not">>, <<"avvakapote">>} -> 3
      [] operator \in {<<"=", "=">>, <<"!", "=">>, <<"<">>, <<"<", "=">>,
                       <<">">>, <<">", "=">>} -> 4
      [] operator \in {<<"+">>, <<"-">>} -> 5
      [] operator \in {<<"*">>, <<"/">>, <<"%">>} -> 6
      [] OTHER -> 0

\* BinaryOperation._needs_parentheses
needs_parentheses(operator, child, is_left) ==
    \/ get_precedence(child.operator) < get_precedence(operator)
    \/ get_precedence(child.operator) = get_precedence(operator) /\ ~is_left

NoToPython ==
    Raise("AttributeError", <<"'NoneType' object has no attribute 'to_python'">>)

RECURSIVE expr_to_python(_), exprs_to_python(_, _)

\* [e.to_python() for e in elements], stopping at the first exception
exprs_to_python(elements, acc) ==
    IF elements = <<>> THEN Ok(acc, 0)
    ELSE Then(expr_to_python(Head(elements)), LAMBDA c :
         exprs_to_python(Tail(elements), Append(acc, c.node)))

\* ", ".join(e.to_python() for e in elements) between an opening and a closing text
joined_to_python(open, elements, close) ==
    Then(exprs_to_python(elements, <<>>), LAMBDA e :
    Ok(open \o Join(e.node, <<",", SP>>) \o close, 0))

\* the text of an operand of a binary operation, parenthesized when
\* _needs_parentheses says so
operand_code(operator, child, is_left, code) ==
    IF child.kind = "BinaryOperation" /\ needs_parentheses(operator, child, is_left)
    THEN <<"(">> \o code \o <<")">> ELSE code

\* to_python of the expression classes
expr_to_python(n) ==
    CASE n.kind = "Identifier" -> Ok(n.name, 0)
      [] n.kind = "StringLiteral" -> Ok(<<QUOTE>> \o Escape(n.value) \o <<QUOTE>>, 0)
      [] n.kind = "NumberLiteral" -> Ok(n.value, 0)
      [] n.kind = "BooleanLiteral" -> Ok(IF n.value THEN <<"True">> ELSE <<"False">>, 0)
      [] n.kind = "ListLiteral" -> joined_to_python(<<"[">>, n.elements, <<"]">>)
      [] n.kind = "BinaryOperation" ->
            Then(expr_to_python(n.left), LAMBDA l :
            Then(expr_to_python(n.right), LAMBDA r :
            Ok(operand_code(n.operator, n.left, TRUE, l.node)
               \o <<SP>> \o n.operator \o <<SP>>
               \o operand_code(n.operator, n.right, FALSE, r.node), 0)))
      [] n.kind = "UnaryOperation" ->
            Then(expr_to_python(n.operand), LAMBDA o :
            Ok(n.operator
               \o (IF n.operator \in {<<"-">>, <<"+">>} THEN <<>> ELSE <<SP>>)
               \o (IF n.operand.kind = "BinaryOperation"
                   THEN <<"(">> \o o.node \o <<")">> ELSE o.node), 0))
      [] n.kind = "FunctionCall" ->
            joined_to_python(n.name \o <<"(">>, n.arguments, <<")">>)
      [] n.kind = "MethodCall" ->
            Then(expr_to_python(n.object_expr), LAMBDA o :
            joined_to_python(o.node \o <<".">> \o n.method_name \o <<"(">>,
                             n.arguments, <<")">>))
      [] n.kind = "AttributeAccess" ->
            Then(expr_to_python(n.object_expr), LAMBDA o :
            Ok(o.node \o <<".">> \o n.attribute_name, 0))
      [] OTHER -> NoToPython

RECURSIVE to_python(_, _), body_to_python(_, _, _), block_to_python(_, _, _, _),
          elifs_to_python(_, _, _)

\* for stmt in body: result += stmt.to_python(indent_level + 1) + "\n"
body_to_python(body, indent_level, result) ==
    IF body = <<>> THEN Ok(result, 0)
    ELSE Then(to_python(Head(body), indent_level + 1), LAMBDA c :
         body_to_python(Tail(body), indent_level, result \o c.node \o <<NL>>))

\* a header line and its body, as For/While/FunctionDefinition/ElifBlock and
\* the then-part of IfStatement write them; an empty body raises ValueError
block_to_python(header, body, indent_level, what) ==
    IF body = <<>>
    THEN Raise("ValueError", <<what, "has empty">>)
    ELSE body_to_python(body, indent_level, indent(indent_level) \o header \o <<":", NL>>)

\* for elif_block in self.elif_blocks: result += elif_block.to_python(..) + "\n"
elifs_to_python(elif_blocks, indent_level, result) ==
    IF elif_blocks = <<>> THEN Ok(result, 0)
    ELSE Then(to_python(Head(elif_blocks), indent_level), LAMBDA c :
         elifs_to_python(Tail(elif_blocks), indent_level, result \o c.node \o <<NL>>))

\* return result.rstrip()
rstripped(r) == IF r.err # "" THEN r ELSE Ok(Rstrip(r.node), 0)

\* the else part of IfStatement.to_python
else_to_python(else_block, indent_level, result) ==
    IF else_block = <<>> THEN Ok(result, 0)
    ELSE body_to_python(else_block, indent_level,
                        result \o indent(indent_level) \o <<"else", ":", NL>>)

\* to_python of the statement classes and ElifBlock
to_python(n, indent_level) ==
    CASE n.kind = "AssignmentStatement" ->
            Then(expr_to_python(n.value), LAMBDA v :
            Ok(indent(indent_level) \o n.variable \o <<SP, "=", SP>> \o v.node, 0))
      [] n.kind = "PrintStatement" ->
            joined_to_python(indent(indent_level) \o <<"print", "(">>, n.arguments, <<")">>)
      [] n.kind = "ElifBlock" ->
            Then(expr_to_python(n.condition), LAMBDA c :
            rstripped(block_to_python(<<"elif", SP>> \o c.node, n.body,
                                      indent_level, "For loop")))
      [] n.kind = "IfStatement" ->
            Then(expr_to_python(n.condition), LAMBDA c :
            Then(block_to_python(<<"if", SP>> \o c.node, n.then_block,
                                 indent_level, "If statement"), LAMBDA t :
            Then(elifs_to_python(n.elif_blocks, indent_level, t.node), LAMBDA e :
            rstripped(else_to_python(n.else_block, indent_level, e.node)))))
      [] n.kind = "ForStatement" ->
            Then(expr_to_python(n.iterable), LAMBDA i :
            rstripped(block_to_python(<<"for", SP>> \o n.variable \o <<SP, "in", SP>>
                                      \o i.node, n.body, indent_level, "For loop")))
      [] n.kind = "WhileStatement" ->
            Then(expr_to_python(n.condition), LAMBDA c :
            rstripped(block_to_python(<<"while", SP>> \o c.node, n.body,
                                      indent_level, "While loop")))
      [] n.kind = "FunctionDefinition" ->
            rstripped(block_to_python(<<"def", SP>> \o n.name \o <<"(">>
                                      \o Join(n.parameters, <<",", SP>>) \o <<")">>,
                                      n.body, indent_level, "Function"))
      [] n.kind = "ReturnStatement" ->
            IF n.value.kind = "None" THEN Ok(indent(indent_level) \o <<"return">>, 0)
            ELSE Then(expr_to_python(n.value), LAMBDA v :
                 Ok(indent(indent_level) \o <<"return", SP>> \o v.node, 0))
      [] n.kind = "BreakStatement" -> Ok(indent(indent_level) \o <<"break">>, 0)
      [] n.kind = "ContinueStatement" -> Ok(indent(indent_level) \o <<"continue">>, 0)
      [] n.kind = "ExpressionStatement" ->
            Then(expr_to_python(n.expression), LAMBDA e :
            Ok(indent(indent_level) \o e.node, 0))

BlockKinds == {"ForStatement", "WhileStatement", "IfStatement", "FunctionDefinition"}

\* the lines one statement adds to python_lines in Program.to_python
statement_lines(python_code, is_last, kind) ==
    IF Strip(python_code) = <<>> THEN <<>>
    ELSE IF ~is_last /\ kind \in BlockKinds THEN <<python_code, <<>> >>
    ELSE <<python_code>>

\* the loop of Program.to_python over statements[i..], collecting the lines
RECURSIVE program_lines(_, _, _)
program_lines(statements, i, python_lines) ==
    IF i > Len(statements) THEN Ok(python_lines, 0)
    ELSE Then(to_python(statements[i], 0), LAMBDA c :
         program_lines(statements, i + 1,
             python_lines \o statement_lines(c.node, i = Len(statements),
                                             statements[i].kind)))

\* Program.to_python
program_to_python(program) ==
    Then(program_lines(program.statements, 1, <<>>), LAMBDA l :
    Ok(Join(l.node, <<NL>>), 0))

(***************************************************************************)
(* Input programs                                                          *)
(***************************************************************************)
MaxArgs == 2        \* most arguments of a generated print statement
MaxElifs == 1       \* most elif clauses of a generated conditional

Indent4 == <<SP, SP, SP, SP>>

\* one indented body line (a packed print) and one indented assignment
PrintLine == <<NL>> \o Indent4 \o <<"(", "x", ")", "cheppu">>
AssignLine == <<NL>> \o Indent4 \o <<"y", SP, "=", SP, "1">>
Bodies == {PrintLine, AssignLine \o PrintLine}

\* what may follow a construct: nothing, a newline, a statement at column 0
Tails == {<<>>, <<NL>>, <<NL, "z", SP, "=", SP, "2">>}

Conditions == {<<"x", SP, ">", SP, "5">>, <<"x">>, <<"x", SP, "=", "=", SP, "y">>}

\* okavela <cond> aite:   and the same header without the word aite
IfHeader(cond, aite) ==
    <<"okavela", SP>> \o cond \o (IF aite THEN <<SP, "aite">> ELSE <<>>) \o <<":">>
ElifHeader(cond, aite) ==
    <<NL, "lekapothe", SP, "okavela", SP>> \o cond
    \o (IF aite THEN <<SP, "aite">> ELSE <<>>) \o <<":">>
ElseHeader == <<NL, "lekapothe", ":">>

\* the iterable expressions of for loops
IterableTexts ==
    {<<"items">>, <<"range", "(", "5", ")">>, <<"a", ".", "b">>,
     <<"[", "1", ",", SP, "2", "]">>, <<"(", "a", ")">>}
ForHeader(iterable, name) == iterable \o <<SP, "lo", SP, name, SP, "ki", ":">>

WhileHeader == <<"x", SP, "<", SP, "10", SP, "unnanta", SP, "varaku", ":">>
DefHeader == <<"vidhanam", SP, "f", "(", "a", ")", ":">>

\* the headers of the block constructs, by construct
Headers ==
    [if |-> {IfHeader(c, a) : c \in Conditions, a \in BOOLEAN},
     elif |-> {IfHeader(<<"x">>, a) \o PrintLine \o ElifHeader(<<"w">>, a) : a \in BOOLEAN},
     else |-> {IfHeader(<<"x">>, a) \o PrintLine \o ElseHeader : a \in BOOLEAN},
     for |-> {ForHeader(i, "n") : i \in IterableTexts \ {<<"(", "a", ")">>}},
     while |-> {WhileHeader},
     def |-> {DefHeader}]

Constructs == DOMAIN Headers

\* a header followed by no body statement
EmptyBodyPrograms(construct) == {h \o t : h \in Headers[construct], t \in Tails}
\* a header followed by a body
BlockPrograms(construct) ==
    {h \o b \o t : h \in Headers[construct], b \in Bodies, t \in Tails}

\* conditionals with n elif clauses and an optional else, every body present
RECURSIVE ElifChain(_, _)
ElifChain(n, aite) ==
    IF n = 0 THEN <<>>
    ELSE ElifHeader(<<"w", SP, "<", SP, "3">>, aite) \o AssignLine \o ElifChain(n - 1, aite)

Conditional(cond, aite, n, else) ==
    IfHeader(cond, aite) \o PrintLine \o ElifChain(n, aite)
    \o (IF else THEN ElseHeader \o PrintLine ELSE <<>>)

ConditionalPrograms ==
    {Conditional(c, a, n, e) : c \in Conditions, a \in BOOLEAN,
                               n \in 0..MaxElifs, e \in BOOLEAN}

\* for loops with a body over every iterable form
ForPrograms == {ForHeader(i, "n") \o b : i \in IterableTexts, b \in Bodies}

\* statements of the shape <iterable> lo <name> lacking ki, ':' or both
IncompleteForPrograms ==
    {i \o <<SP, "lo", SP, "n">> \o e \o t :
        i \in IterableTexts \ {<<"a", ".", "b">>},
        e \in {<<>>, <<SP, "ki">>, <<":">>},
        t \in {<<>>, PrintLine}}

\* argument texts of print statements
ArgTexts ==
    {<<"x">>, <<QUOTE, "a", QUOTE>>, <<"5">>, <<"Nijam">>,
     <<"x", SP, "+", SP, "1">>, <<"f", "(", "x", ")">>}

\* the argument lists of at most n arguments
RECURSIVE ArgLists(_)
ArgLists(n) ==
    IF n = 0 THEN {<<>>}
    ELSE ArgLists(n - 1)
         \cup {Append(l, a) : l \in {m \in ArgLists(n - 1) : Len(m) = n - 1}, a \in ArgTexts}

\* ( e1, ..., en )cheppu
PrintText(args) == <<"(">> \o Join(args, <<",", SP>>) \o <<")", "cheppu">>
PrintPrograms ==
    {PrintText(l) : l \in ArgLists(MaxArgs)}
    \cup {PrintText(<<a>>) : a \in {<<"[", "1", ",", SP, "2", "]">>, <<"1", ".", "5">>,
                                    <<"2", ".", "10">>, <<"1", ".", "2", ".", "3">>,
                                    <<"05">>}}

\* the binary operators as written in source text, and operand op operand
OperatorTexts ==
    {<<"leda">>, <<"mariyu">>, <<"=", "=">>, <<"!", "=">>, <<"<">>, <<"<", "=">>,
     <<">">>, <<">", "=">>, <<"in">>, <<"+">>, <<"-">>, <<"*">>, <<"/">>, <<"%">>}
Operation(l, op, r) == l \o <<SP>> \o op \o <<SP>> \o r
Paren(e) == <<"(">> \o e \o <<")">>
OperatorPrograms ==
    {Operation(<<"j">>, op, <<"2">>) : op \in OperatorTexts}
    \cup {Operation(Operation(<<"j">>, <<"%">>, <<"2">>), <<"=", "=">>, <<"0">>),
          Operation(<<QUOTE, "a", QUOTE>>, <<"in">>, <<"items">>)}

\* two operators with the grouping written on the left, on the right, or not
GroupedOperators == {<<"leda">>, <<"mariyu">>, <<"=", "=">>, <<"<">>, <<"+">>, <<"-">>, <<"*">>}
GroupingPrograms ==
    UNION {{Operation(Paren(Operation(<<"a">>, o1, <<"b">>)), o2, <<"c">>),
            Operation(<<"a">>, o1, Paren(Operation(<<"b">>, o2, <<"c">>))),
            Operation(Operation(<<"a">>, o1, <<"b">>), o2, <<"c">>)}
           : o1 \in GroupedOperators, o2 \in GroupedOperators}

\* inputs with a token that cannot begin or continue a statement where it is
SurplusTokenPrograms ==
    {<<"mariyu">>, <<"x", SP, "=", SP, "1", NL, "lo">>,
     <<"okavela", SP, "x", SP, "aite">>,
     <<"x", SP, "<", SP, "10", SP, "unnanta", SP, "varaku">>,
     <<"x", SP, "5", SP, "unnanta", SP, "varaku", ":">> \o AssignLine,
     <<"x", SP, "<", SP, "10", SP, "y", SP, "unnanta", SP, "varaku", ":">> \o AssignLine}

\* other statements, well formed and not
OtherPrograms ==
    {<<"x", SP, "=", SP, "aagipo">>, <<"x", SP, "=">>, <<"x", SP, "=", SP, ")">>,
     <<"(", "x">>, <<"(", "aagipo", ")">>, <<"[", "aagipo", "]">>, <<"-", SP, "ki">>,
     <<"x", SP, "ivvu">>, <<"ivvu", SP, "x">>, <<"ivvu">>, <<"aagipo">>,
     <<"munduku", SP, "vellu">>, <<"avvakapote", SP, "x">>, <<"-", "x">>,
     <<"name", SP, "=", SP, QUOTE, "Ravi", QUOTE, NL>>
        \o PrintText(<< <<QUOTE, "My", SP, "name", QUOTE>>, <<"name">> >>),
     <<"a", ".", "b", "(", "1", ")">>, <<"f", "(", "1", ")", "(", "2", ")">>,
     <<"x", SP, "@", SP, "y">>, <<>>, <<NL, NL>>,
     DefHeader \o <<NL>> \o Indent4 \o <<"a", SP, "ivvu">>,
     WhileHeader \o <<NL>> \o Indent4 \o <<"x", SP, "=", SP, "x", SP, "+", SP, "1">>
        \o <<NL>> \o Indent4 \o <<"aagipo">>}

\* every keyword alone, every phrase with one and with two spaces inside
KeywordPrograms ==
    {<<w>> : w \in DOMAIN SINGLE_WORD_KEYWORDS}
    \cup {<<w>> \o gap \o <<MULTI_WORD_KEYWORDS[w][1]>> :
            w \in DOMAIN MULTI_WORD_KEYWORDS, gap \in {<<SP>>, <<SP, SP>>}}

\* the words of a phrase used alone, and words that begin with a keyword
\* where a keyword or a phrase could end
WordPrograms ==
    {<<"vellu">>, <<"varaku">>, <<"munduku">>, <<"unnanta">>,
     <<"vellu", SP, "=", SP, "1", NL, "munduku", SP, "vellu">>,
     <<"munduku", SP, "vellux">>, <<"unnanta", SP, "varakula">>,
     <<"lekapothe", SP, "okavelan">>, <<"items", SP, "lo", SP, "n", SP, "kitten">>,
     <<"(", "x", ")", "cheppudu">>, <<"okavela", SP, "x", SP, "aitey">>,
     <<"okavelan">>, <<"kitten">>, <<"aitey">>, <<"cheppudu", SP, "=", SP, "1">>}

\* newlines inside and outside parentheses
NewlinePrograms ==
    {<<"a", NL, "b">>, <<"a", NL, NL, "b">>, <<"a", NL>>,
     <<"f", "(", "a", ",", NL, "b", ")">>,
     <<"f", "(", "a", ",", NL, "b", ")", NL, "x">>,
     <<"f", "(", "(", "a", ")", ",", NL, "b", ")", NL, "x">>,
     <<"f", "(", "a", ")", NL, "x">>,
     <<"x", ")", NL, "y">>, <<"x", ")", NL, "y", NL, "z">>,
     <<"(", NL, "x">>, <<"(", "x", NL, "y", ")", NL, "z">>}

\* characters no token rule matches, and text a rule cannot finish
IllegalPrograms ==
    {<<"@">>, <<"@", "@", "x">>, <<"x", SP, "=", SP, "1", SP, "@">>, <<"!">>,
     <<"x", SP, "=", SP, "%", "1">>, <<QUOTE, "a">>, <<BSLASH, "x">>,
     <<"okavela", SP, "x", NL, "y", SP, "aite", ":">>,
     <<"x", SP, "=", SP, "1", NL, "okavela", SP, "(", "a", ",", NL, "b", ")", SP, "aite", ":">>}

LexerPrograms == KeywordPrograms \cup WordPrograms \cup NewlinePrograms \cup IllegalPrograms

\* texts given to a parser that has already parsed other texts
ReusePrograms ==
    {<<"x", SP, "=", SP, "1">>,
     <<"a", NL, "b">>,
     IfHeader(<<"x">>, FALSE) \o PrintLine,
     WhileHeader \o AssignLine,
     <<"(", NL, "x">>,
     <<"x", ")", NL, "y">>}

\* statements with a print or return keyword after, or inside, parentheses
DispatchPrograms ==
    {<<"(", "f", "(", "x", ")", ")", "cheppu", SP, "ivvu">>,
     <<"(", "f", "(", "x", ")", ")", "cheppu", SP, "y", SP, "ivvu">>,
     <<"(", "f", "(", "x", ")", ")", "cheppu">>,
     <<"(", "f", "(", "x", ")", ")", "cheppu", NL, "y", SP, "ivvu">>,
     <<"(", "f", "(", "x", ")", ")", "ivvu">>,
     <<"(", "x", ")", SP, "cheppu", SP, "ivvu">>,
     <<"x", SP, "=", SP, "f", "(", "a", SP, "ivvu", ")">>,
     <<"x", SP, "=", SP, "f", "(", "a", ")", NL, "y", SP, "ivvu">>,
     <<"x", SP, "=", SP, "f", "(", "a", ")", SP, "ivvu">>,
     <<"f", "(", "a", SP, "ivvu", ")">>,
     <<"f", "(", "a", ")", SP, "ivvu">>,
     <<"f", "(", "a", ")", NL, "x", SP, "ivvu">>,
     <<"(", "a", SP, "ivvu", ")">>,
     <<"x", SP, "ivvu">>,
     <<"x", SP, "+", SP, "(", "y", ")", SP, "ivvu">>,
     <<"x", NL, "ivvu">>}

\* a call written over two physical lines, the second line beginning with
\* the spaces c
MultiLineCall(c) == <<"f", "(", "a", ",", NL>> \o c \o <<"b", ")">>

\* how far the second line of a header is indented
Continuations == {<<>>, Indent4 \o Indent4}

\* headers at column 0 that span two physical lines inside parentheses
MultiLineHeaders(c) ==
    {IfHeader(MultiLineCall(c), FALSE),
     ForHeader(MultiLineCall(c), "n"),
     MultiLineCall(c) \o <<SP, "unnanta", SP, "varaku", ":">>}

MultiLinePrograms ==
    {h \o b \o t : h \in UNION {MultiLineHeaders(c) : c \in Continuations},
                   b \in Bodies, t \in Tails}

\* bodies whose statements stand at different columns, all right of the header
UnevenBodyPrograms ==
    {h \o PrintLine \o <<NL, SP, SP, "y", SP, "=", SP, "1">> \o t :
        h \in {IfHeader(<<"x">>, FALSE), ForHeader(<<"items">>, "n"), WhileHeader},
        t \in Tails}

\* names a program may give a variable; some are words of the target language
VariableNames == {"x", "total", "class", "in", "print"}

\* programs written in the documented forms: assignments, prints, and the
\* conditional, for and while constructs with a body
ValidPrograms ==
    {<<w, SP, "=", SP, "5">> : w \in VariableNames}
    \cup {<<"x", SP, "=", SP, w, SP, "+", SP, "1">> : w \in VariableNames}
    \cup {ForHeader(<<"items">>, w) \o PrintLine : w \in VariableNames}
    \cup {h \o b \o t :
            h \in {IfHeader(c, TRUE) : c \in Conditions}
                  \cup {ForHeader(i, "n") : i \in IterableTexts \ {<<"(", "a", ")">>}}
                  \cup {WhileHeader},
            b \in Bodies, t \in Tails}

\* the else and elif lines that may follow a conditional
ElseWords == {<<"lekapothe", ":">>, <<"lekapothe", SP, "okavela", SP, "w", ":">>}

\* a conditional nested in the body of another, then the statements mid of
\* the outer body, then an else or elif line kw written after the spaces e
NestedConditional(mid, e, kw) ==
    IfHeader(<<"x">>, FALSE)
    \o <<NL>> \o Indent4 \o IfHeader(<<"y">>, FALSE)
    \o <<NL>> \o Indent4 \o Indent4 \o <<"(", "x", ")", "cheppu">>
    \o mid
    \o <<NL>> \o e \o kw
    \o <<NL>> \o e \o Indent4 \o <<"y", SP, "=", SP, "1">>

NestedConditionalPrograms ==
    {NestedConditional(mid, e, kw) :
        mid \in {<<>>, AssignLine}, e \in {<<>>, Indent4}, kw \in ElseWords}

\* simple statements on one line
SimpleLines == {<<"x", SP, "=", SP, "1">>, <<"f", "(", "x", ")">>, <<"x">>}

\* what the lines after a simple statement may hold: a for loop whose
\* header the tokenizer leaves as separate tokens, a for header without
\* 'ki', another simple statement
LaterLines ==
    {ForHeader(<<"range", "(", "5", ")">>, "i") \o PrintLine,
     <<"y", SP, "=", SP, "2", NL>> \o ForHeader(<<"range", "(", "5", ")">>, "i") \o PrintLine,
     <<"range", "(", "5", ")", SP, "lo", SP, "i">>,
     <<"y", SP, "=", SP, "2">>}

LaterLinePrograms ==
    SimpleLines \cup {first \o <<NL>> \o later : first \in SimpleLines, later \in LaterLines}

\* texts with a newline inside a token the tokenizer packs from several
\* words, each followed by a statement on a line of its own
PackedNewlinePrograms ==
    {<<"munduku", NL, "vellu", NL, "x">>,
     <<"unnanta", NL, NL, "varaku", NL, "x">>,
     <<"(", "a", ",", NL, "b", ")", "cheppu", NL, "x">>,
     <<"(", "a", ")", NL, "cheppu", NL, "x">>,
     <<"items", NL, "lo", SP, "i", NL, "ki", ":">> \o PrintLine,
     <<"items", NL, "lo", SP, "i", SP, "ki", ":">> \o PrintLine \o <<NL, "x">>,
     <<"okavela", SP, "x", SP, ">", NL, "5", SP, "aite", ":">> \o PrintLine,
     <<"munduku", SP, "vellu", NL, "x">>,
     <<"x", NL, NL, "y", NL, "z">>}

\* assignments of a string literal: the literal's source text is made of
\* plain characters, escaped quotes and escaped backslashes
MaxPieces == 2

LiteralPieces == {<<"a">>, <<SP>>, <<BSLASH, QUOTE>>, <<BSLASH, BSLASH>>}

RECURSIVE LiteralBodies(_)
LiteralBodies(n) ==
    IF n = 0 THEN {<<>>}
    ELSE LiteralBodies(n - 1)
         \cup {b \o c : b \in LiteralBodies(n - 1), c \in LiteralPieces}

StringAssignment(body) == <<"s", SP, "=", SP, QUOTE>> \o body \o <<QUOTE>>

StringPrograms == {StringAssignment(b) : b \in LiteralBodies(MaxPieces)}

\* assignments of a primary: an identifier followed by attribute, method
\* call and call suffixes
MaxSuffixes == 2

Suffixes == {<<".", "b">>, <<".", "m", "(", "1", ")">>, <<"(", "2", ")">>}

RECURSIVE SuffixChains(_)
SuffixChains(n) ==
    IF n = 0 THEN {<<>>}
    ELSE SuffixChains(n - 1) \cup {c \o x : c \in SuffixChains(n - 1), x \in Suffixes}

SuffixAssignment(chain) == <<"x", SP, "=", SP, "a">> \o chain

SuffixPrograms == {SuffixAssignment(c) : c \in SuffixChains(MaxSuffixes)}

\* statements with a keyword, or nothing, where an operand is expected
KeywordOperandPrograms ==
    {<<"x", SP, "=", SP, "ki">>, <<"x", SP, "=", SP, "[", "ki", "]">>,
     <<"f", "(", "ki", ")">>, <<"f", "(", "a", ",">>, <<"x", SP, "+", SP, "ki">>,
     <<"(", "ki", ")">>, <<"-", SP, "ki">>, <<"ki">>, <<"ki", NL, "x", SP, "=", SP, "1">>,
     <<"lekapothe", ":", NL, "x">>, <<"x", SP, "leda">>, <<"[", "a", ",", "ki", "]">>,
     <<"(", "a", SP, "ki", ")", SP, "cheppu">>, <<"a", ".", "m", "(", "ki", ")">>,
     <<"x", SP, "=", NL, "y">>, <<")">>, <<"pani", SP, "f", "(", "a", SP, "ki", ")", ":">>}

Programs ==
    KeywordOperandPrograms \cup SuffixPrograms \cup StringPrograms \cup ReusePrograms \cup DispatchPrograms \cup MultiLinePrograms \cup UnevenBodyPrograms
    \cup ValidPrograms \cup NestedConditionalPrograms \cup LaterLinePrograms
    \cup PackedNewlinePrograms \cup
    UNION {EmptyBodyPrograms(c) \cup BlockPrograms(c) : c \in Constructs}
    \cup ConditionalPrograms \cup ForPrograms \cup IncompleteForPrograms
    \cup PrintPrograms \cup OperatorPrograms \cup GroupingPrograms
    \cup SurplusTokenPrograms \cup OtherPrograms \cup LexerPrograms

(***************************************************************************)
(* The pipeline as a state machine: one text given to a newly created      *)
(* TengParser, parsed, and the returned Program rendered.                  *)
(***************************************************************************)
NoError == [kind |-> "", msg |-> <<>>]

NoLookahead == [predicate |-> "", answer |-> FALSE]

Init ==
    /\ text \in Programs
    /\ pc = "input"
    /\ tokens = <<>>
    /\ tree = NoneNode
    /\ err = NoError
    /\ output = <<>>
    /\ paren_count = 0
    /\ lineno = 1
    /\ stream_pos = 0
    /\ lookahead = NoLookahead

\* parse on every input text for a newly created parser, computed once
ParseNew == [t \in Programs |-> parse(t, 1, 0)]

\* the state after TengParser.parse(text) returned or raised; an exception
\* leaves no tree
Parsed(r) ==
    /\ tokens' = r.tokens
    /\ lineno' = r.lineno
    /\ paren_count' = r.paren_count
    /\ pc' = IF r.err # "" THEN "failed" ELSE "parsed"
    /\ err' = [kind |-> r.err, msg |-> r.msg]
    /\ tree' = r.node

\* TengParser.parse(text)
Parse ==
    /\ pc = "input"
    /\ Parsed(IF lineno = 1 /\ paren_count = 0 THEN ParseNew[text]
              ELSE parse(text, lineno, paren_count))
    /\ UNCHANGED <<text, output, stream_pos, lookahead>>

\* the state after Program.to_python() returned or raised
Rendered(r) ==
    /\ pc' = IF r.err # "" THEN "render_failed" ELSE "rendered"
    /\ err' = [kind |-> r.err, msg |-> r.msg]
    /\ output' = r.node

\* Program.to_python() on the tree parse returned
Render ==
    /\ pc = "parsed"
    /\ Rendered(program_to_python(tree))
    /\ UNCHANGED <<text, tokens, tree, paren_count, lineno, stream_pos, lookahead>>

Next == Parse \/ Render

Spec == Init /\ [][Next]_vars

(***************************************************************************)
(* The same TengParser given one text after another.  The parser keeps its *)
(* TengLexer, and with it the PLY line counter and paren_count, from call  *)
(* to call; the token list, the source lines and the tree are new in each  *)
(* call.                                                                   *)
(***************************************************************************)
MaxLineno == 3      \* a further text is given while the line counter is at most this
MaxParen == 1       \* ... and the parenthesis counter is within this of zero

\* the caller gives the parser another text after the last call ended
Reuse ==
    /\ pc \in {"failed", "rendered", "render_failed"}
    /\ lineno <= MaxLineno
    /\ paren_count \in (0 - MaxParen)..MaxParen
    /\ text' \in ReusePrograms
    /\ pc' = "input"
    /\ tokens' = <<>>
    /\ tree' = NoneNode
    /\ err' = NoError
    /\ output' = <<>>
    /\ UNCHANGED <<paren_count, lineno, stream_pos, lookahead>>

NextReuse == Parse \/ Render \/ Reuse

SpecReuse == Init /\ [][NextReuse]_vars

(***************************************************************************)
(* Properties                                                              *)
(***************************************************************************)
\* parse has returned a Program
Returned == pc \in {"parsed", "rendered", "render_failed"}

\* the tree the expression grammar builds for an expression text
ExprTree(e) == parse_expression(tokenize(e, 1, 0).tokens, 1).node

Bin(l, op, r) == [kind |-> "BinaryOperation", left |-> l, operator |-> op, right |-> r]

\* the trees and the rendered text of the generated body lines
PrintLineTree == PrintStatement(<<Identifier(<<"x">>)>>)
AssignLineTree ==
    [kind |-> "AssignmentStatement", variable |-> <<"y">>, value |-> NumberLiteral(<<"1">>)]
BodyTree(b) == IF b = PrintLine THEN <<PrintLineTree>> ELSE <<AssignLineTree, PrintLineTree>>
PrintLineOut == <<NL>> \o Indent4 \o <<"print", "(", "x", ")">>
BodyOut(b) == IF b = PrintLine THEN PrintLineOut ELSE AssignLine \o PrintLineOut

\* every block of the tree holds at least one statement
RECURSIVE BlocksNonEmpty(_)
BlocksNonEmpty(n) ==
    LET All(block) == \A i \in 1..Len(block) : BlocksNonEmpty(block[i]) IN
    CASE n.kind = "Program" -> All(n.statements)
      [] n.kind = "IfStatement" ->
            /\ n.then_block # <<>>
            /\ All(n.then_block) /\ All(n.elif_blocks) /\ All(n.else_block)
      [] n.kind \in {"ElifBlock", "ForStatement", "WhileStatement", "FunctionDefinition"} ->
            n.body # <<>> /\ All(n.body)
      [] OTHER -> TRUE

\* the message of a SyntaxError that names a construct with an empty body
NamesConstruct(msg) ==
    msg \in {<<c, "cannot have empty body">> :
                c \in {"If statement", "For loop", "While loop", "Function"}}

\* C1: for every block construct or clause (if, elif, else, packed and
\* unpacked for, while, def) a header followed by no body statement makes
\* parse raise a SyntaxError naming the construct, and every block of a tree
\* that parse returns is non-empty.
C1_EmptyBodyRaises ==
    /\ \A c \in Constructs :
          (text \in EmptyBodyPrograms(c) /\ pc # "input")
          => (pc = "failed" /\ err.kind = "SyntaxError" /\ NamesConstruct(err.msg))
    /\ Returned => BlocksNonEmpty(tree)

\* the IfStatement and the text expected of Conditional(cond, TRUE, n, else)
ExpectedElif ==
    [kind |-> "ElifBlock", condition |-> ExprTree(<<"w", SP, "<", SP, "3">>),
     body |-> <<AssignLineTree>>]
ExpectedIf(cond, n, else) ==
    [kind |-> "IfStatement", condition |-> ExprTree(cond),
     then_block |-> <<PrintLineTree>>,
     else_block |-> IF else THEN <<PrintLineTree>> ELSE <<>>,
     elif_blocks |-> [i \in 1..n |-> ExpectedElif]]
RECURSIVE ExpectedElifText(_)
ExpectedElifText(n) ==
    IF n = 0 THEN <<>>
    ELSE <<NL, "elif", SP, "w", SP, "<", SP, "3", ":">> \o AssignLine
         \o ExpectedElifText(n - 1)
ExpectedIfText(cond, n, else) ==
    <<"if", SP>> \o cond \o <<":">> \o PrintLineOut \o ExpectedElifText(n)
    \o (IF else THEN <<NL, "else", ":">> \o PrintLineOut ELSE <<>>)

\* C2: okavela <cond> aite: with an indented body, optional lekapothe okavela
\* <cond2> aite: clauses and a final lekapothe: clause, parses into exactly
\* one IfStatement holding the expression tree of <cond>, the elif clauses in
\* order and the else last, and renders as if / elif / else with each body
\* one level deeper.
C2_ConditionalBecomesIfStatement ==
    \A cond \in Conditions, n \in 0..MaxElifs, else \in BOOLEAN :
        text = Conditional(cond, TRUE, n, else)
        => /\ pc \notin {"failed", "render_failed"}
           /\ Returned => tree = Program(<<ExpectedIf(cond, n, else)>>)
           /\ pc = "rendered" => output = ExpectedIfText(cond, n, else)

\* C3: <iterable> lo <name> ki: with an indented body parses into a
\* ForStatement whose variable is <name> and whose iterable is the expression
\* tree of the whole iterable (identifier, call, attribute access, list
\* literal), and renders as for <name> in <iterable>: and the indented body.
C3_ForLoopBecomesForStatement ==
    \A iterable \in IterableTexts \ {<<"(", "a", ")">>}, b \in Bodies :
        text = ForHeader(iterable, "n") \o b
        => /\ pc \notin {"failed", "render_failed"}
           /\ Returned =>
                tree = Program(<<[kind |-> "ForStatement", variable |-> <<"n">>,
                                  iterable |-> ExprTree(iterable),
                                  body |-> BodyTree(b)]>>)
           /\ pc = "rendered" =>
                output = <<"for", SP, "n", SP, "in", SP>> \o iterable \o <<":">>
                         \o BodyOut(b)

\* C4: (e1, ..., en)cheppu parses into one PrintStatement whose arguments are
\* the n comma-separated expressions, each the tree the expression grammar
\* builds for it (as the parser's own postfix-print route builds them),
\* whether or not the lexer packs the statement into one CHEPPU token.
C4_PrintArgumentsAreExpressions ==
    \A l \in ArgLists(MaxArgs) \cup {<< <<"[", "1", ",", SP, "2", "]">> >>} :
        text = PrintText(l)
        => /\ pc # "failed"
           /\ Returned =>
                tree = Program(<<PrintStatement([i \in 1..Len(l) |-> ExprTree(l[i])])>>)

\* the operator a surface operator text stands for
PythonOperator(op) ==
    IF op = <<"leda">> THEN <<"or">> ELSE IF op = <<"mariyu">> THEN <<"and">> ELSE op

\* C5: every binary operator of the expression levels (or, and, ==, !=, <,
\* <=, >, >=, in, +, -, *, /, %) written between two operands reaches the tree
\* as a BinaryOperation with that operator; j % 2 == 0 and "a" in items each
\* parse to a single expression holding the % and the in operation.
C5_OperatorsReachTree ==
    /\ \A op \in OperatorTexts :
          text = Operation(<<"j">>, op, <<"2">>)
          => /\ pc # "failed"
             /\ Returned =>
                  tree = Program(<<ExpressionStatement(
                             Bin(Identifier(<<"j">>), PythonOperator(op),
                                 NumberLiteral(<<"2">>)))>>)
    /\ text = Operation(Operation(<<"j">>, <<"%">>, <<"2">>), <<"=", "=">>, <<"0">>)
       => /\ pc # "failed"
          /\ Returned =>
               tree = Program(<<ExpressionStatement(
                          Bin(Bin(Identifier(<<"j">>), <<"%">>, NumberLiteral(<<"2">>)),
                              <<"=", "=">>, NumberLiteral(<<"0">>)))>>)
    /\ text = Operation(<<QUOTE, "a", QUOTE>>, <<"in">>, <<"items">>)
       => /\ pc # "failed"
          /\ Returned =>
               tree = Program(<<ExpressionStatement(
                          Bin(StringLiteral(<<"a">>), <<"in">>, Identifier(<<"items">>)))>>)

\* the level of an operator in the expression grammar
GrammarLevel(operator) ==
    CASE operator = <<"or">> -> 1
      [] operator = <<"and">> -> 2
      [] operator \in {<<"=", "=">>, <<"!", "=">>} -> 3
      [] operator \in {<<"<">>, <<"<", "=">>, <<">">>, <<">", "=">>, <<"in">>} -> 4
      [] operator \in {<<"+">>, <<"-">>} -> 5
      [] operator \in {<<"*">>, <<"/">>, <<"%">>} -> 6

\* a tree of binary operations over identifiers rendered with one space on
\* each side of an operator and a child parenthesized exactly when its level
\* is lower than its parent's, or equal and it is the right operand
RECURSIVE LevelRender(_)
LevelRender(n) ==
    IF n.kind # "BinaryOperation" THEN n.name
    ELSE LET Child(c, is_left) ==
                 IF c.kind = "BinaryOperation"
                    /\ \/ GrammarLevel(c.operator) < GrammarLevel(n.operator)
                       \/ GrammarLevel(c.operator) = GrammarLevel(n.operator) /\ ~is_left
                 THEN <<"(">> \o LevelRender(c) \o <<")">>
                 ELSE LevelRender(c)
         IN  Child(n.left, TRUE) \o <<SP>> \o n.operator \o <<SP>> \o Child(n.right, FALSE)

\* C6: a binary operation renders with one space on each side of the operator
\* and a child binary operation in parentheses exactly when the child's
\* operator is strictly lower than the parent's in the grammar's level order
\* (or < and < equality < relational and in < additive < multiplicative), or
\* the child is the right operand and of equal level.
C6_ParenthesesFollowGrammarLevels ==
    (pc = "rendered" /\ text \in GroupingPrograms)
    => output = LevelRender(tree.statements[1].expression)

\* C7: every failure of parse(text) is a SyntaxError and nothing else.
C7_OnlySyntaxErrors == pc = "failed" => err.kind = "SyntaxError"

\* the names and literal values held by the nodes of a tree
RECURSIVE Leaves(_)
Leaves(n) ==
    LET Each(nodes) == UNION {Leaves(nodes[i]) : i \in 1..Len(nodes)} IN
    CASE n.kind \in {"Identifier"} -> {n.name}
      [] n.kind \in {"StringLiteral", "NumberLiteral"} -> {n.value}
      [] n.kind = "ListLiteral" -> Each(n.elements)
      [] n.kind = "BinaryOperation" -> Leaves(n.left) \cup Leaves(n.right)
      [] n.kind = "UnaryOperation" -> Leaves(n.operand)
      [] n.kind = "FunctionCall" -> {n.name} \cup Each(n.arguments)
      [] n.kind = "MethodCall" ->
            Leaves(n.object_expr) \cup {n.method_name} \cup Each(n.arguments)
      [] n.kind = "AttributeAccess" -> Leaves(n.object_expr) \cup {n.attribute_name}
      [] n.kind = "AssignmentStatement" -> {n.variable} \cup Leaves(n.value)
      [] n.kind = "PrintStatement" -> Each(n.arguments)
      [] n.kind = "IfStatement" ->
            Leaves(n.condition) \cup Each(n.then_block) \cup Each(n.elif_blocks)
            \cup Each(n.else_block)
      [] n.kind \in {"ElifBlock", "WhileStatement"} -> Leaves(n.condition) \cup Each(n.body)
      [] n.kind = "ForStatement" -> {n.variable} \cup Leaves(n.iterable) \cup Each(n.body)
      [] n.kind = "FunctionDefinition" ->
            {n.name} \cup {n.parameters[i] : i \in 1..Len(n.parameters)} \cup Each(n.body)
      [] n.kind = "ReturnStatement" -> Leaves(n.value)
      [] n.kind = "ExpressionStatement" -> Leaves(n.expression)
      [] n.kind = "Program" -> Each(n.statements)
      [] OTHER -> {}

\* the values of the identifier, number and string tokens of the input
OperandTokens ==
    {tokens[i].value : i \in {j \in 1..Len(tokens) :
                                tokens[j].type \in {"IDENTIFIER", "NUMBER", "STRING"}}}

\* C8: when parse returns a Program every non-NEWLINE token has been consumed
\* into a node of the tree; a keyword with no statement form at a statement
\* position, a header lacking its ':' and surplus tokens after a while
\* condition make parse raise instead of being skipped.
C8_NoTokenSkipped ==
    /\ (text \in SurplusTokenPrograms /\ pc # "input") => pc = "failed"
    /\ Returned => OperandTokens \subseteq Leaves(tree)

\* C9: <iterable> lo <name> lacking the trailing ki or the ':' raises a
\* SyntaxError reporting an incomplete for loop, for every form of iterable
\* (identifier, call, list literal, parenthesised expression).
C9_IncompleteForLoopReported ==
    (text \in IncompleteForPrograms /\ pc # "input")
    => /\ pc = "failed"
       /\ err = [kind |-> "SyntaxError",
                 msg |-> <<"Incomplete for loop: missing 'ki' or ':'">>]

\* C10: for every Program that parse returns, to_python completes and returns
\* text; no node of a parsed tree raises while being rendered.
C10_RenderingTotal == pc # "render_failed"

(***************************************************************************)
(* States the pipeline reaches on the inputs that show each divergence     *)
(***************************************************************************)
\* C1: items lo n ki: with no body is returned as a ForStatement with an
\* empty body
C1_EmptyForBodyReturned ==
    /\ text = ForHeader(<<"items">>, "n") /\ pc = "parsed"
    /\ tree = Program(<<[kind |-> "ForStatement", variable |-> <<"n">>,
                         iterable |-> Identifier(<<"items">>), body |-> <<>>]>>)

\* C2: okavela x > 5 aite: with a body fails on the ':' of the header
C2_PackedConditionalRejected ==
    /\ text = Conditional(<<"x", SP, ">", SP, "5">>, TRUE, 0, FALSE) /\ pc = "failed"
    /\ err = [kind |-> "SyntaxError", msg |-> <<"Unexpected token", "COLON">>]

\* C3: a.b lo n ki: with a body fails on the packed for keyword
C3_AttributeIterableRejected ==
    /\ text = ForHeader(<<"a", ".", "b">>, "n") \o PrintLine /\ pc = "failed"
    /\ err = [kind |-> "SyntaxError",
              msg |-> <<"Expected", "IDENTIFIER", "got", "TELUGU_KEYWORD">>]

\* C4: the packed (x + 1)cheppu holds the argument text as one identifier
C4_ArgumentKeptAsIdentifier ==
    /\ text = PrintText(<< <<"x", SP, "+", SP, "1">> >>) /\ pc = "parsed"
    /\ tree = Program(<<PrintStatement(<<Identifier(<<"x", SP, "+", SP, "1">>)>>)>>)

\* C5: j % 2 == 0 is returned as the two statements j and 2 == 0
C5_ModuloDropped ==
    /\ text = Operation(Operation(<<"j">>, <<"%">>, <<"2">>), <<"=", "=">>, <<"0">>)
    /\ pc = "parsed"
    /\ tree = Program(<<ExpressionStatement(Identifier(<<"j">>)),
                        ExpressionStatement(Bin(NumberLiteral(<<"2">>), <<"=", "=">>,
                                                NumberLiteral(<<"0">>)))>>)

\* C6: the tree of (a == b) < c renders without its parentheses
C6_EqualityUnderRelationalUnparenthesized ==
    /\ text = Operation(Paren(Operation(<<"a">>, <<"=", "=">>, <<"b">>)), <<"<">>, <<"c">>)
    /\ pc = "rendered"
    /\ output = <<"a", SP, "=", "=", SP, "b", SP, "<", SP, "c">>

\* C7: x = aagipo fails with a TypeError
C7_TypeErrorRaised ==
    /\ text = <<"x", SP, "=", SP, "aagipo">> /\ pc = "failed"
    /\ err = [kind |-> "TypeError", msg |-> <<"value must be an Expression">>]

\* C8: the lone keyword mariyu is skipped and an empty Program returned
C8_KeywordSkipped == text = <<"mariyu">> /\ pc = "parsed" /\ tree = Program(<<>>)

\* C9: [1, 2] lo n is returned as two expression statements
C9_IncompleteForLoopAccepted ==
    /\ text = <<"[", "1", ",", SP, "2", "]", SP, "lo", SP, "n">> /\ pc = "parsed"
    /\ Len(tree.statements) = 2

\* C10: rendering the tree returned for items lo n ki: raises ValueError
C10_RenderRaised ==
    /\ text = ForHeader(<<"items">>, "n") /\ pc = "render_failed"
    /\ err.kind = "ValueError"

(***************************************************************************)
(* Tokenizer properties                                                    *)
(***************************************************************************)
\* C11: every TELUGU_KEYWORD token carries the translation the keyword
\* table gives the word or phrase that produced it, never the surface
\* spelling: each keyword alone gives one token holding its table value (an
\* empty value for ki), each phrase one token holding the phrase's value, and
\* no keyword token of any input holds a surface keyword.
C11_KeywordValuesTranslated ==
    /\ \A w \in DOMAIN SINGLE_WORD_KEYWORDS :
          (text = <<w>> /\ pc # "input")
          => tokens = <<Tok("TELUGU_KEYWORD", SINGLE_WORD_KEYWORDS[w], 1)>>
    /\ \A w \in DOMAIN MULTI_WORD_KEYWORDS, gap \in {<<SP>>, <<SP, SP>>} :
          (text = <<w>> \o gap \o <<MULTI_WORD_KEYWORDS[w][1]>> /\ pc # "input")
          => tokens = <<Tok("TELUGU_KEYWORD", <<MULTI_WORD_KEYWORDS[w][2]>>, 1)>>
    /\ \A i \in 1..Len(tokens) :
          tokens[i].type = "TELUGU_KEYWORD"
          => tokens[i].value \notin {<<w>> : w \in DOMAIN SINGLE_WORD_KEYWORDS}

\* C11: the word ki gives a keyword token that holds the word itself
C11_SurfaceSpellingKept ==
    text = <<"ki">> /\ pc = "parsed" /\ tokens = <<Tok("TELUGU_KEYWORD", <<"ki">>, 1)>>

\* C12: keyword recognition is whole-word and atomic: a phrase with any
\* spacing inside gives exactly one keyword token, a word of a phrase used
\* alone stays an identifier, and every identifier token is a complete word
\* of the text, so a word that only begins with a keyword or with the last
\* word of a phrase is never split into a keyword and a leftover identifier.
C12_KeywordsAreWholeWords ==
    /\ \A w \in DOMAIN MULTI_WORD_KEYWORDS, gap \in {<<SP>>, <<SP, SP>>} :
          (text = <<w>> \o gap \o <<MULTI_WORD_KEYWORDS[w][1]>> /\ pc # "input")
          => Len(tokens) = 1 /\ tokens[1].type = "TELUGU_KEYWORD"
    /\ \A w \in {"vellu", "varaku", "munduku", "unnanta"} :
          (text = <<w>> /\ pc # "input") => tokens = <<Tok("IDENTIFIER", <<w>>, 1)>>
    /\ \A i \in 1..Len(tokens) :
          tokens[i].type = "IDENTIFIER"
          => \E j \in 1..Len(text) : tokens[i].value = <<text[j]>>

\* C12: munduku vellux gives the keyword continue and the identifier x
C12_WordSplit ==
    /\ text = <<"munduku", SP, "vellux">> /\ pc # "input"
    /\ tokens = <<Tok("TELUGU_KEYWORD", <<"continue">>, 1), Tok("IDENTIFIER", <<"x">>, 1)>>

\* the parenthesis nesting depth of the text after its first i atoms: an
\* unmatched ')' closes nothing
DepthStep(d, a) == IF a = "(" THEN d + 1 ELSE IF a = ")" /\ d > 0 THEN d - 1 ELSE d
RECURSIVE NestingDepth(_, _)
NestingDepth(s, i) == IF i = 0 THEN 0 ELSE DepthStep(NestingDepth(s, i - 1), s[i])

\* the runs of physical newlines of the text that lie at nesting depth zero
NewlineRunsAtDepthZero(s) ==
    {i \in 1..Len(s) : /\ s[i] = NL
                       /\ (i = 1 \/ s[i - 1] # NL)
                       /\ NestingDepth(s, i - 1) = 0}

\* C13: tokenize emits a NEWLINE token for a run of physical newlines
\* exactly when the parenthesis nesting depth there is zero: none between an
\* unclosed '(' and its ')', one for every run outside any open parenthesis,
\* also after an unmatched ')'.
C13_NewlineIffDepthZero ==
    (text \in NewlinePrograms /\ pc # "input")
    => Cardinality({i \in 1..Len(tokens) : tokens[i].type = "NEWLINE"})
       = Cardinality(NewlineRunsAtDepthZero(text))

\* C13: in x)<newline>y the newline after the unmatched ')' gives no token
C13_NewlineAfterUnmatchedParenLost ==
    /\ text = <<"x", ")", NL, "y">> /\ pc # "input"
    /\ tokens = <<Tok("IDENTIFIER", <<"x">>, 1), Tok("RPAREN", <<")">>, 1),
                  Tok("IDENTIFIER", <<"y">>, 2)>>

\* the text without the characters that no token rule matches in the
\* inputs of IllegalPrograms
WithoutIllegal(s) == SelectSeq(s, LAMBDA a : a \notin {"@", "%", "!", BSLASH, QUOTE})

\* C14: tokenize never fails: for every input it returns a token list, and
\* a character no rule matches is skipped alone, so the tokens are those of
\* the text without that character.
C14_TokenizeNeverFails ==
    /\ err.kind # "LexError"
    /\ (text \in IllegalPrograms /\ pc # "input")
       => tokens = tokenize(WithoutIllegal(text), 1, 0).tokens

\* C14: a conditional pattern that runs over a line end makes tokenize raise
C14_LexErrorRaised ==
    /\ text = <<"okavela", SP, "x", NL, "y", SP, "aite", ":">>
    /\ pc = "failed" /\ err.kind = "LexError"

(***************************************************************************)
(* One parser, several texts                                               *)
(***************************************************************************)
\* what a newly constructed TengParser makes of the text
FreshResult == ParseNew[text]

\* C15: what tokenize and parse make of a text does not depend on the calls
\* made before on the same instance: the tokens with their line numbers,
\* the tree and the error are those a newly constructed parser gives.
C15_ResultIndependentOfEarlierCalls ==
    pc # "input" =>
        /\ tokens = FreshResult.tokens
        /\ tree = FreshResult.node
        /\ (pc \in {"parsed", "failed"} =>
                err = [kind |-> FreshResult.err, msg |-> FreshResult.msg])

\* the text a; b on two lines, given after a call that left a parenthesis
\* open: the NEWLINE between the two statements is not emitted
C15_EarlierCallChangesTokens ==
    /\ text = <<"a", NL, "b">>
    /\ pc = "parsed"
    /\ paren_count = 1
    /\ tokens = <<Tok("IDENTIFIER", <<"a">>, lineno - 1), Tok("IDENTIFIER", <<"b">>, lineno)>>
    /\ FreshResult.tokens = <<Tok("IDENTIFIER", <<"a">>, 1), Tok("NEWLINE", <<NL>>, 1),
                              Tok("IDENTIFIER", <<"b">>, 2)>>

(***************************************************************************)
(* Statement dispatch                                                      *)
(***************************************************************************)
\* the text begins with '(' and the ')' matching it is immediately followed
\* by the print keyword
StartsWithPostfixPrint == tokens # <<>> /\ is_telugu_postfix_print(tokens, 1)

\* C16: postfix-print detection is tried before postfix-return detection: a
\* statement that starts with '(' whose matching ')' is immediately followed
\* by the print keyword is parsed as a print statement, also when a return
\* keyword occurs later on the same logical line.
C16_PostfixPrintBeforeReturn ==
    (pc # "input" /\ StartsWithPostfixPrint) =>
        /\ Returned
        /\ tree.statements[1].kind = "PrintStatement"

\* (f(x))cheppu ivvu is taken for a return statement, and the print keyword
\* is met where 'ivvu' is expected
C16_PrintTakenForReturn ==
    /\ text = <<"(", "f", "(", "x", ")", ")", "cheppu", SP, "ivvu">>
    /\ StartsWithPostfixPrint
    /\ pc = "failed"
    /\ err = [kind |-> "SyntaxError",
              msg |-> <<"Expected 'ivvu' (return)">>]

\* a return keyword on the logical line that begins at token p, outside
\* every parenthesis opened on that line
ReturnKeywordAtDepthZero(ts, p) ==
    \E j \in p..Len(ts) :
        /\ IsKeyword(ts, j, <<"return">>)
        /\ \A k \in p..(j - 1) : ts[k].type # "NEWLINE"
        /\ Balance(ts, p, j - 1) = 0

\* the first statement of the text reaches the return test of the dispatch
\* and passes it
FirstStatementDispatchedAsReturn ==
    /\ tokens # <<>>
    /\ tokens[1].type \notin {"TELUGU_KEYWORD", "CHEPPU"}
    /\ is_telugu_return_statement(tokens, 1)

\* C17: postfix-return detection recognises a return keyword only at
\* parenthesis depth zero of the current logical line: a statement whose only
\* return keyword lies inside parentheses is not dispatched as a return
\* statement, and the scan does not look past the NEWLINE ending the line.
C17_ReturnOnlyAtDepthZero ==
    (pc # "input" /\ FirstStatementDispatchedAsReturn) =>
        ReturnKeywordAtDepthZero(tokens, 1)

\* x = f(a ivvu): the return keyword is inside the call's parentheses, the
\* statement is dispatched as a return and fails at the '=' sign
C17_NestedReturnDispatched ==
    /\ text = <<"x", SP, "=", SP, "f", "(", "a", SP, "ivvu", ")">>
    /\ FirstStatementDispatchedAsReturn
    /\ ~ReturnKeywordAtDepthZero(tokens, 1)
    /\ pc = "failed"
    /\ err = [kind |-> "SyntaxError", msg |-> <<"Expected", "TELUGU_KEYWORD", "got", "ASSIGN">>]

(***************************************************************************)
(* Rendering trees built with the node constructors.  The tests of         *)
(* ast_nodes.py build trees directly and call to_python on them; here the  *)
(* trees are all block statements nested up to MaxDepth deep.              *)
(***************************************************************************)
MaxDepth == 2       \* deepest nesting of blocks in a constructed tree

\* the bodies made around the statements of S
BodiesAround(S) ==
    {<<s>> : s \in S} \cup {<<AssignLineTree, s, PrintLineTree>> : s \in S}

IfTree(then_block, elif_blocks, else_block) ==
    [kind |-> "IfStatement", condition |-> Identifier(<<"x">>),
     then_block |-> then_block, else_block |-> else_block, elif_blocks |-> elif_blocks]

ElifTree(body) == [kind |-> "ElifBlock", condition |-> Identifier(<<"z">>), body |-> body]

\* every block statement class, with b as one of its blocks
BlockStatements(b) ==
    {[kind |-> "ForStatement", variable |-> <<"i">>,
      iterable |-> Identifier(<<"items">>), body |-> b],
     [kind |-> "WhileStatement", condition |-> Identifier(<<"x">>), body |-> b],
     FunctionDefinition(<<"f">>, <<<<"a">>, <<"b">>>>, b),
     IfTree(b, <<>>, <<>>),
     IfTree(b, <<ElifTree(<<PrintLineTree>>)>>, <<AssignLineTree>>),
     IfTree(<<PrintLineTree>>, <<ElifTree(b)>>, <<>>),
     IfTree(<<PrintLineTree>>, <<>>, b)}

\* the statements with blocks nested at most d deep
RECURSIVE Statements(_)
Statements(d) ==
    {PrintLineTree, AssignLineTree} \cup
    (IF d = 0 THEN {}
     ELSE UNION {BlockStatements(b) : b \in BodiesAround(Statements(d - 1))})

RenderTrees ==
    {Program(<<s>>) : s \in Statements(MaxDepth)}
    \cup {Program(<<s, PrintLineTree>>) : s \in Statements(MaxDepth)}

\* a tree handed to to_python without any text having been parsed
InitRender ==
    /\ text = <<>>
    /\ pc = "parsed"
    /\ tokens = <<>>
    /\ tree \in RenderTrees
    /\ err = NoError
    /\ output = <<>>
    /\ paren_count = 0
    /\ lineno = 1
    /\ stream_pos = 0
    /\ lookahead = NoLookahead

SpecRender == InitRender /\ [][Render]_vars

\* the lines a statement nested d blocks deep is to give, each as the depth
\* of the line and the word it begins with
Line(d, first) == [depth |-> d, first |-> first]

RECURSIVE StatementLines(_, _), BlockLines(_, _), ElifLines(_, _)

BlockLines(body, d) ==
    IF body = <<>> THEN <<>>
    ELSE StatementLines(Head(body), d) \o BlockLines(Tail(body), d)

ElifLines(elif_blocks, d) ==
    IF elif_blocks = <<>> THEN <<>>
    ELSE <<Line(d, "elif")>> \o BlockLines(Head(elif_blocks).body, d + 1)
         \o ElifLines(Tail(elif_blocks), d)

StatementLines(s, d) ==
    CASE s.kind = "IfStatement" ->
            <<Line(d, "if")>> \o BlockLines(s.then_block, d + 1)
            \o ElifLines(s.elif_blocks, d)
            \o (IF s.else_block = <<>> THEN <<>>
                ELSE <<Line(d, "else")>> \o BlockLines(s.else_block, d + 1))
      [] s.kind = "ForStatement" -> <<Line(d, "for")>> \o BlockLines(s.body, d + 1)
      [] s.kind = "WhileStatement" -> <<Line(d, "while")>> \o BlockLines(s.body, d + 1)
      [] s.kind = "FunctionDefinition" -> <<Line(d, "def")>> \o BlockLines(s.body, d + 1)
      [] s.kind = "PrintStatement" -> <<Line(d, "print")>>
      [] s.kind = "AssignmentStatement" -> <<Line(d, Head(s.variable))>>

\* the lines of a program: those of its statements, with an empty line after
\* every block statement but the last statement
RECURSIVE ProgramLines(_, _)
ProgramLines(statements, i) ==
    IF i > Len(statements) THEN <<>>
    ELSE StatementLines(statements[i], 0)
         \o (IF i < Len(statements) /\ statements[i].kind \in BlockKinds
             THEN <<Line(0, "")>> ELSE <<>>)
         \o ProgramLines(statements, i + 1)

\* the line is empty where an empty line is due; otherwise it has exactly
\* four spaces for each level and then the word of the statement
LineAsExpected(line, e) ==
    IF e.first = "" THEN line = <<>>
    ELSE /\ Len(line) > 4 * e.depth
         /\ \A k \in 1..(4 * e.depth) : line[k] = SP
         /\ line[4 * e.depth + 1] = e.first

OnlySpaces(line) == line # <<>> /\ \A k \in 1..Len(line) : line[k] = SP

\* C18: in the text rendered for a tree with non-empty blocks, every
\* statement nested d blocks deep starts its line with exactly 4*d spaces,
\* each body statement stands on its own line one level deeper than its
\* header, elif and else lines sit at the level of their if, and no line
\* consists only of spaces.
C18_IndentationFollowsNesting ==
    pc # "parsed" =>
        /\ pc = "rendered"
        /\ Len(SplitLines(output)) = Len(ProgramLines(tree.statements, 1))
        /\ \A i \in 1..Len(SplitLines(output)) :
               /\ LineAsExpected(SplitLines(output)[i], ProgramLines(tree.statements, 1)[i])
               /\ ~OnlySpaces(SplitLines(output)[i])

\* a while loop inside the elif part of a conditional, followed by a print:
\* the loop body is rendered with eight spaces
C18_NestedBlocksRendered ==
    /\ tree = Program(<<IfTree(<<PrintLineTree>>,
                               <<ElifTree(<<[kind |-> "WhileStatement",
                                            condition |-> Identifier(<<"x">>),
                                            body |-> <<PrintLineTree>>]>>)>>,
                               <<>>),
                        PrintLineTree>>)
    /\ pc = "rendered"
    /\ output = <<"if", SP, "x", ":", NL>>
                \o Indent4 \o <<"print", "(", "x", ")", NL>>
                \o <<"elif", SP, "z", ":", NL>>
                \o Indent4 \o <<"while", SP, "x", ":", NL>>
                \o Indent4 \o Indent4 \o <<"print", "(", "x", ")", NL>>
                \o <<NL>>
                \o <<"print", "(", "x", ")">>

(***************************************************************************)
(* Block bodies and indentation                                            *)
(***************************************************************************)
\* the block of a construct's header
BlockOf(n) == IF n.kind = "IfStatement" THEN n.then_block ELSE n.body

TailLine == <<NL, "z", SP, "=", SP, "2">>
TailTree ==
    [kind |-> "AssignmentStatement", variable |-> <<"z">>, value |-> NumberLiteral(<<"2">>)]

\* parse returned one construct whose block is body, followed by the
\* statement of the tail t when t holds one
BlockParsedAs(body, t) ==
    /\ Returned
    /\ Len(tree.statements) = (IF t = TailLine THEN 2 ELSE 1)
    /\ tree.statements[1].kind \in BlockKinds
    /\ BlockOf(tree.statements[1]) = body
    /\ (t = TailLine => tree.statements[2] = TailTree)

\* C20: the body of a block construct is the maximal run of following
\* statements whose source line is indented more than the line on which the
\* header begins, also when the header spans several physical lines inside
\* parentheses; the first statement at or below that column is not consumed.
C20_BodyIsRunIndentedPastHeader ==
    pc # "input" =>
        \A t \in Tails :
            /\ \A c \in Continuations, b \in Bodies :
                   \A h \in MultiLineHeaders(c) :
                       text = h \o b \o t => BlockParsedAs(BodyTree(b), t)
            /\ \A h \in {IfHeader(<<"x">>, FALSE), ForHeader(<<"items">>, "n"), WhileHeader} :
                   text = h \o PrintLine \o <<NL, SP, SP, "y", SP, "=", SP, "1">> \o t
                       => BlockParsedAs(<<PrintLineTree, AssignLineTree>>, t)

\* a conditional whose header ends on a line indented by eight spaces: the
\* body, indented by four, is taken to be empty
C20_BodyLeftOfHeaderEndRejected ==
    /\ text = IfHeader(MultiLineCall(Indent4 \o Indent4), FALSE) \o PrintLine \o TailLine
    /\ pc = "failed"
    /\ err = [kind |-> "SyntaxError", msg |-> <<"If statement", "cannot have empty body">>]

(***************************************************************************)
(* The syntax of the target language, for the statement and expression     *)
(* forms the renderer writes: a recognizer over the atoms of a text.       *)
(* Every Py... operator takes the text and the index to read from and      *)
(* gives the index after what it read, or 0 when the text does not fit.    *)
(***************************************************************************)
PythonKeywords ==
    {"False", "None", "True", "and", "as", "assert", "async", "await", "break",
     "class", "continue", "def", "del", "elif", "else", "except", "finally",
     "for", "from", "global", "if", "import", "in", "is", "lambda", "nonlocal",
     "not", "or", "pass", "raise", "return", "try", "while", "with", "yield"}

\* the atom at index i, "" outside the text
At(s, i) == IF i \in 1..Len(s) THEN s[i] ELSE ""

APOS == "'"

IsName(a) ==
    a # "" /\ a \notin PunctAtoms \cup {APOS} /\ a \notin NumberWords
    /\ a \notin PythonKeywords

\* a decimal integer: no leading zero
IsNumber(a) == a \in NumberWords /\ IntText(a) = a

Bind(i, rest(_)) == IF i = 0 THEN 0 ELSE rest(i)

\* the index after the atom a when it is the next atom from i on, else 0
PyAtomIs(s, i, a) == IF At(s, SkipSpace(s, i)) = a THEN SkipSpace(s, i) + 1 ELSE 0

\* the index after the comparison operator that begins at k, 0 when none does
PyCompOp(s, k) ==
    CASE At(s, k) \in {"<", ">"} -> IF At(s, k + 1) = "=" THEN k + 2 ELSE k + 1
      [] At(s, k) \in {"=", "!"} /\ At(s, k + 1) = "=" -> k + 2
      [] At(s, k) = "in" -> k + 1
      [] At(s, k) = "not" -> PyAtomIs(s, k + 1, "in")
      [] OTHER -> 0

RECURSIVE PyString(_, _, _), PyArg(_, _), PyExpr(_, _), PyOrRest(_, _), PyAnd(_, _), PyAndRest(_, _),
          PyNot(_, _), PyComparison(_, _), PyCompRest(_, _), PyArith(_, _),
          PyArithRest(_, _), PyTerm(_, _), PyTermRest(_, _), PyFactor(_, _),
          PyPrimary(_, _), PyTrailers(_, _), PyAtom(_, _), PyArgs(_, _, _),
          PyArgsRest(_, _, _), PyParams(_, _)

\* the rest of a string literal, i being the index after the opening quote q
PyString(s, i, q) ==
    IF i > Len(s) THEN 0
    ELSE IF s[i] = q THEN i + 1
    ELSE IF s[i] = BSLASH THEN (IF i + 1 > Len(s) THEN 0 ELSE PyString(s, i + 2, q))
    ELSE PyString(s, i + 1, q)

PyAtom(s, i) ==
    LET k == SkipSpace(s, i) IN
    CASE At(s, k) \in {QUOTE, APOS} -> PyString(s, k + 1, At(s, k))
      [] At(s, k) = "(" -> Bind(PyExpr(s, k + 1), LAMBDA j : PyAtomIs(s, j, ")"))
      [] At(s, k) = "[" -> PyArgs(s, k + 1, "]")
      [] IsNumber(At(s, k)) ->
            IF At(s, k + 1) = "." /\ At(s, k + 2) \in NumberWords THEN k + 3 ELSE k + 1
      [] At(s, k) \in {"True", "False", "None"} -> k + 1
      [] IsName(At(s, k)) -> k + 1
      [] OTHER -> 0

\* an expression, or name = expression in a call
PyArg(s, i) ==
    IF /\ IsName(At(s, SkipSpace(s, i)))
       /\ PyAtomIs(s, SkipSpace(s, i) + 1, "=") # 0
       /\ At(s, PyAtomIs(s, SkipSpace(s, i) + 1, "=")) # "="
    THEN PyExpr(s, PyAtomIs(s, SkipSpace(s, i) + 1, "="))
    ELSE PyExpr(s, i)

\* arguments separated by commas up to the closing atom
PyArgs(s, i, close) ==
    IF PyAtomIs(s, i, close) # 0 THEN PyAtomIs(s, i, close)
    ELSE Bind(IF close = ")" THEN PyArg(s, i) ELSE PyExpr(s, i),
              LAMBDA j : PyArgsRest(s, j, close))

PyArgsRest(s, j, close) ==
    IF PyAtomIs(s, j, close) # 0 THEN PyAtomIs(s, j, close)
    ELSE Bind(PyAtomIs(s, j, ","), LAMBDA k : PyArgs(s, k, close))

\* calls, attributes and subscripts after an atom
PyTrailers(s, i) ==
    LET k == SkipSpace(s, i) IN
    CASE At(s, k) = "(" -> Bind(PyArgs(s, k + 1, ")"), LAMBDA j : PyTrailers(s, j))
      [] At(s, k) = "." ->
            IF IsName(At(s, SkipSpace(s, k + 1)))
            THEN PyTrailers(s, SkipSpace(s, k + 1) + 1) ELSE 0
      [] At(s, k) = "[" ->
            Bind(PyExpr(s, k + 1), LAMBDA j :
            Bind(PyAtomIs(s, j, "]"), LAMBDA e : PyTrailers(s, e)))
      [] OTHER -> i

PyPrimary(s, i) == Bind(PyAtom(s, i), LAMBDA j : PyTrailers(s, j))

PyFactor(s, i) ==
    IF At(s, SkipSpace(s, i)) \in {"+", "-"} THEN PyFactor(s, SkipSpace(s, i) + 1)
    ELSE PyPrimary(s, i)

PyTermRest(s, j) ==
    IF At(s, SkipSpace(s, j)) \in {"*", "/", "%"}
    THEN Bind(PyFactor(s, SkipSpace(s, j) + 1), LAMBDA k : PyTermRest(s, k))
    ELSE j

PyTerm(s, i) == Bind(PyFactor(s, i), LAMBDA j : PyTermRest(s, j))

PyArithRest(s, j) ==
    IF At(s, SkipSpace(s, j)) \in {"+", "-"}
    THEN Bind(PyTerm(s, SkipSpace(s, j) + 1), LAMBDA k : PyArithRest(s, k))
    ELSE j

PyArith(s, i) == Bind(PyTerm(s, i), LAMBDA j : PyArithRest(s, j))

PyCompRest(s, j) ==
    IF PyCompOp(s, SkipSpace(s, j)) # 0
    THEN Bind(PyArith(s, PyCompOp(s, SkipSpace(s, j))), LAMBDA k : PyCompRest(s, k))
    ELSE j

PyComparison(s, i) == Bind(PyArith(s, i), LAMBDA j : PyCompRest(s, j))

PyNot(s, i) ==
    IF PyAtomIs(s, i, "not") # 0 THEN PyNot(s, PyAtomIs(s, i, "not"))
    ELSE PyComparison(s, i)

PyAndRest(s, j) ==
    IF PyAtomIs(s, j, "and") # 0
    THEN Bind(PyNot(s, PyAtomIs(s, j, "and")), LAMBDA k : PyAndRest(s, k))
    ELSE j

PyAnd(s, i) == Bind(PyNot(s, i), LAMBDA j : PyAndRest(s, j))

PyOrRest(s, j) ==
    IF PyAtomIs(s, j, "or") # 0
    THEN Bind(PyAnd(s, PyAtomIs(s, j, "or")), LAMBDA k : PyOrRest(s, k))
    ELSE j

PyExpr(s, i) == Bind(PyAnd(s, i), LAMBDA j : PyOrRest(s, j))

\* parameter names separated by commas up to the closing parenthesis
PyParams(s, i) ==
    IF PyAtomIs(s, i, ")") # 0 THEN PyAtomIs(s, i, ")")
    ELSE IF ~IsName(At(s, SkipSpace(s, i))) THEN 0
    ELSE IF PyAtomIs(s, SkipSpace(s, i) + 1, ",") # 0
         THEN PyParams(s, PyAtomIs(s, SkipSpace(s, i) + 1, ","))
    ELSE PyAtomIs(s, SkipSpace(s, i) + 1, ")")

\* nothing but spaces is left from j on
PyEnds(s, j) == j # 0 /\ SkipSpace(s, j) > Len(s)

\* a colon and then nothing is left from j on
PyColonEnds(s, j) == j # 0 /\ PyEnds(s, PyAtomIs(s, j, ":"))

\* the line, without its indentation, is the header of a compound statement
IsHeaderLine(s) ==
    CASE At(s, 1) \in {"if", "elif", "while"} -> PyColonEnds(s, PyExpr(s, 2))
      [] At(s, 1) = "else" -> PyColonEnds(s, 2)
      [] At(s, 1) = "for" ->
            /\ IsName(At(s, SkipSpace(s, 2)))
            /\ PyColonEnds(s, Bind(PyAtomIs(s, SkipSpace(s, 2) + 1, "in"),
                                   LAMBDA j : PyExpr(s, j)))
      [] At(s, 1) = "def" ->
            /\ IsName(At(s, SkipSpace(s, 2)))
            /\ PyColonEnds(s, Bind(PyAtomIs(s, SkipSpace(s, 2) + 1, "("),
                                   LAMBDA j : PyParams(s, j)))
      [] OTHER -> FALSE

\* the line, without its indentation, is a simple statement
IsSimpleLine(s) ==
    CASE At(s, 1) = "return" -> PyEnds(s, 2) \/ PyEnds(s, PyExpr(s, 2))
      [] At(s, 1) \in {"break", "continue", "pass"} -> PyEnds(s, 2)
      [] IsName(At(s, 1)) /\ PyAtomIs(s, 2, "=") # 0 /\ At(s, PyAtomIs(s, 2, "=")) # "=" ->
            PyEnds(s, PyExpr(s, PyAtomIs(s, 2, "=")))
      [] OTHER -> PyEnds(s, PyExpr(s, 1))

RECURSIVE LeadingSpaces(_)
LeadingSpaces(line) ==
    IF line # <<>> /\ Head(line) = SP THEN 1 + LeadingSpaces(Tail(line)) ELSE 0

\* the header words an elif or else line may continue
Continues(word) ==
    IF word = "elif" THEN {"if", "elif"}
    ELSE IF word = "else" THEN {"if", "elif", "for", "while"}
    ELSE {}

\* the lines from i on are statements laid out in blocks: stack holds the
\* indentation of the open blocks, heads the header last written at each,
\* expect whether the line before was a header
RECURSIVE PyBlocks(_, _, _, _, _)
PyBlocks(lines, i, stack, heads, expect) ==
    IF i > Len(lines) THEN ~expect
    ELSE IF Strip(lines[i]) = <<>> THEN PyBlocks(lines, i + 1, stack, heads, expect)
    ELSE LET n == LeadingSpaces(lines[i])
             s == From(lines[i], LeadingSpaces(lines[i]) + 1)
         IN  /\ IsHeaderLine(s) \/ IsSimpleLine(s)
             /\ IF expect
                THEN /\ n > stack[Len(stack)]
                     /\ s[1] \notin {"elif", "else"}
                     /\ PyBlocks(lines, i + 1, Append(stack, n),
                                 Append(heads, IF IsHeaderLine(s) THEN s[1] ELSE ""),
                                 IsHeaderLine(s))
                ELSE \E k \in 1..Len(stack) :
                        /\ stack[k] = n
                        /\ s[1] \in {"elif", "else"} => heads[k] \in Continues(s[1])
                        /\ PyBlocks(lines, i + 1, SubSeq(stack, 1, k),
                                    Append(SubSeq(heads, 1, k - 1),
                                           IF IsHeaderLine(s) THEN s[1] ELSE ""),
                                    IsHeaderLine(s))

\* a parser of the target language accepts the text
PythonAccepts(t) == PyBlocks(SplitLines(t), 1, <<0>>, <<"">>, FALSE)

\* C19: for every valid program P the text to_python(parse(P)) is
\* syntactically valid source of the target language: parse and to_python
\* return, and a parser of the target language accepts the text.
C19_RenderedTextIsPython ==
    (text \in ValidPrograms /\ pc \notin {"input", "parsed"}) =>
        /\ pc = "rendered"
        /\ PythonAccepts(output)

\* a variable named by a word of the target language: the assignment is
\* rendered unchanged, and the text is no statement of the target language
C19_KeywordNamedVariableRendered ==
    /\ text = <<"class", SP, "=", SP, "5">>
    /\ pc = "rendered"
    /\ output = <<"class", SP, "=", SP, "5">>
    /\ ~PythonAccepts(output)

(***************************************************************************)
(* Nested conditionals                                                     *)
(***************************************************************************)
\* the conditional has an else block or an elif block
HasElsePart(n) == n.else_block # <<>> \/ n.elif_blocks # <<>>

\* C21: an else or elif keyword is attached to the conditional whose header
\* line has the same indentation as the else/elif line: with a conditional
\* nested in the body of another, a `lekapothe:` written at the outer
\* header's indentation becomes the else of the outer conditional, one
\* written at the inner header's indentation that of the inner one.
C21_ElseAttachedByIndentation ==
    pc # "input" =>
        \A kw \in ElseWords :
            /\ \A mid \in {<<>>, AssignLine} :
                   text = NestedConditional(mid, <<>>, kw) =>
                       /\ Returned
                       /\ Len(tree.statements) = 1
                       /\ HasElsePart(tree.statements[1])
                       /\ \A i \in 1..Len(tree.statements[1].then_block) :
                              tree.statements[1].then_block[i].kind = "IfStatement"
                                  => ~HasElsePart(tree.statements[1].then_block[i])
            /\ text = NestedConditional(<<>>, Indent4, kw) =>
                   /\ Returned
                   /\ Len(tree.statements) = 1
                   /\ ~HasElsePart(tree.statements[1])
                   /\ HasElsePart(tree.statements[1].then_block[1])

\* the else line at the outer header's column has become the else of the
\* nested conditional, and the outer conditional has none
C21_OuterElseTakenByInner ==
    /\ text = NestedConditional(<<>>, <<>>, <<"lekapothe", ":">>)
    /\ pc = "parsed"
    /\ ~HasElsePart(tree.statements[1])
    /\ tree.statements[1].then_block[1].kind = "IfStatement"
    /\ tree.statements[1].then_block[1].else_block = <<AssignLineTree>>

(***************************************************************************)
(* Lookahead and the logical line                                          *)
(***************************************************************************)
\* the tokens of the first logical line: those before the first NEWLINE
FirstLineTokens ==
    LET N == {j \in 1..Len(tokens) : tokens[j].type = "NEWLINE"} IN
    IF N = {} THEN tokens ELSE SubSeq(tokens, 1, Min(N) - 1)

\* the later lines that are programs on their own
CompleteLaterLines == LaterLines \ {<<"range", "(", "5", ")", SP, "lo", SP, "i">>}

\* C22: how a statement is dispatched depends only on the tokens of its own
\* logical line: the for-loop and incomplete-for-loop scans stop at the
\* NEWLINE that ends the line, so a simple statement parses the same way
\* whether or not a for header occurs on a later line.
C22_DispatchWithinLogicalLine ==
    (pc # "input" /\ text \in LaterLinePrograms) =>
        /\ is_telugu_for_loop(tokens, 1) = is_telugu_for_loop(FirstLineTokens, 1)
        /\ is_incomplete_for_loop(tokens, 1) = is_incomplete_for_loop(FirstLineTokens, 1)
        /\ \A first \in SimpleLines, later \in CompleteLaterLines :
               text = first \o <<NL>> \o later =>
                   /\ Returned
                   /\ tree.statements[1] = ParseNew[first].node.statements[1]

\* x = 1 followed by a for loop on the next line: the assignment is taken
\* for the beginning of the loop header and parse fails at the '=' sign
C22_LaterHeaderChangesDispatch ==
    /\ text = <<"x", SP, "=", SP, "1", NL>>
              \o ForHeader(<<"range", "(", "5", ")">>, "i") \o PrintLine
    /\ is_telugu_for_loop(tokens, 1)
    /\ ~is_telugu_for_loop(FirstLineTokens, 1)
    /\ pc = "failed"
    /\ err = [kind |-> "SyntaxError", msg |-> <<"Expected", "TELUGU_KEYWORD", "got", "ASSIGN">>]

(***************************************************************************)
(* Line numbers of tokens                                                  *)
(***************************************************************************)
\* the number of newline characters in s
CountNL(s) == Cardinality({j \in 1..Len(s) : s[j] = NL})

\* for each token tokenize returns for the text, the number of the physical
\* line on which it starts: one plus the newlines of the text before it.
\* s is the text still to be read, total the newlines of the whole text.
RECURSIVE PhysicalLines(_, _, _, _)
PhysicalLines(s, line, paren, total) ==
    IF s = <<>> \/ LexStep(s, line, paren).kind = "error" THEN <<>>
    ELSE IF LexStep(s, line, paren).kind = "skip"
    THEN PhysicalLines(LexStep(s, line, paren).rest, LexStep(s, line, paren).lineno,
                       paren, total)
    ELSE <<1 + total - CountNL(s)>>
         \o PhysicalLines(LexStep(s, line, paren).rest, LexStep(s, line, paren).lineno,
                          TrackParentheses(paren, LexStep(s, line, paren).tok), total)

\* C23: every token returned by tokenize on a fresh lexer carries the number
\* of the physical source line on which it starts, one plus the number of
\* newline characters before it in the text, also after newlines suppressed
\* inside parentheses and after newlines inside a multi-word keyword, a
\* packed print or a packed conditional token.
C23_TokensCarryPhysicalLine ==
    (pc # "input" /\ err.kind # "LexError") =>
        \A i \in 1..Len(tokens) :
            tokens[i].lineno = PhysicalLines(text, 1, 0, CountNL(text))[i]

\* munduku and vellu on two lines make one keyword token; the identifier on
\* the third line is numbered 2
C23_LineLostInsideKeyword ==
    /\ text = <<"munduku", NL, "vellu", NL, "x">>
    /\ pc # "input"
    /\ tokens = <<Tok("TELUGU_KEYWORD", <<"continue">>, 1), Tok("NEWLINE", <<NL>>, 1),
                  Tok("IDENTIFIER", <<"x">>, 2)>>
    /\ PhysicalLines(text, 1, 0, CountNL(text)) = <<1, 2, 3>>

(***************************************************************************)
(* The expression grammar on token sequences.  _parse_expression is given  *)
(* a TokenStream over a list of tokens; the tokens here are built directly *)
(* so that every operator token type of the grammar occurs, the ones the   *)
(* tokenizer never produces (MODULO, IN) included.                         *)
(***************************************************************************)
MaxOperators == 2

OperandNames == <<"a", "b", "c", "d", "e">>

BinaryTokens ==
    {Tok("TELUGU_KEYWORD", <<"or">>, 1), Tok("TELUGU_KEYWORD", <<"and">>, 1),
     Tok("EQUALS", <<"=", "=">>, 1), Tok("LT", <<"<">>, 1), Tok("IN", <<"in">>, 1),
     Tok("PLUS", <<"+">>, 1), Tok("MINUS", <<"-">>, 1),
     Tok("TIMES", <<"*">>, 1), Tok("MODULO", <<"%">>, 1)}

UnaryTokens == {Tok("MINUS", <<"-">>, 1), Tok("TELUGU_KEYWORD", <<"not">>, 1)}

UnaryPrefixes == {<<>>} \cup {<<u>> : u \in UnaryTokens}

\* the i-th operand behind a prefix of unary operators
Operand(i, prefix) == prefix \o <<Tok("IDENTIFIER", <<OperandNames[i]>>, 1)>>

\* operand (operator operand)^n, no unary operator
RECURSIVE PlainChains(_)
PlainChains(n) ==
    IF n = 0 THEN {Operand(1, <<>>)}
    ELSE {c \o <<op>> \o Operand(n + 1, <<>>) :
            c \in PlainChains(n - 1), op \in BinaryTokens}

\* the chain with a unary operator before its i-th operand
WithUnary(c, i, u) == SubSeq(c, 1, 2 * i - 2) \o <<u>> \o SubSeq(c, 2 * i - 1, Len(c))

\* the chains of n operators in which at most one operand has a unary operator
OperatorChains(n) ==
    PlainChains(n)
    \cup {WithUnary(c, i, u) : c \in PlainChains(n), i \in 1..(n + 1), u \in UnaryTokens}

InParens(ts) == <<Tok("LPAREN", <<"(">>, 1)>> \o ts \o <<Tok("RPAREN", <<")">>, 1)>>

\* a parenthesised pair on the left or on the right of an outer operator,
\* and under a unary operator
GroupedChains ==
    LET pair(i, op) == Operand(i, <<>>) \o <<op>> \o Operand(i + 1, <<>>) IN
    UNION {{InParens(pair(1, o1)) \o <<o2>> \o Operand(3, <<>>),
            Operand(1, <<>>) \o <<o2>> \o InParens(pair(2, o1))} :
           o1 \in BinaryTokens, o2 \in BinaryTokens}
    \cup {u \o InParens(pair(1, o1)) : o1 \in BinaryTokens, u \in UnaryPrefixes \ {<<>>}}

ExpressionTokens ==
    UNION {OperatorChains(n) : n \in 0..MaxOperators} \cup GroupedChains

InitExpression ==
    /\ text = <<>>
    /\ pc = "tokens"
    /\ tokens \in ExpressionTokens
    /\ tree = NoneNode
    /\ err = NoError
    /\ output = <<>>
    /\ paren_count = 0
    /\ lineno = 1
    /\ stream_pos = 0
    /\ lookahead = NoLookahead

\* parser._parse_expression(TokenStream(tokens))
ParseExpression ==
    /\ pc = "tokens"
    /\ LET r == parse_expression(tokens, 1) IN
         /\ pc' = IF r.err # "" THEN "failed" ELSE "expression"
         /\ err' = [kind |-> r.err, msg |-> r.msg]
         /\ tree' = r.node
    /\ UNCHANGED <<text, tokens, output, paren_count, lineno, stream_pos, lookahead>>

\* expression.to_python() on the tree _parse_expression returned
RenderExpression ==
    /\ pc = "expression"
    /\ Rendered(expr_to_python(tree))
    /\ UNCHANGED <<text, tokens, tree, paren_count, lineno, stream_pos, lookahead>>

NextExpression == ParseExpression \/ RenderExpression

SpecExpression == InitExpression /\ [][NextExpression]_vars

\* a reference precedence-climbing parser: one loop over a table of binding
\* levels, the right operand of an operator of level l being the longest
\* expression whose operators all bind tighter than l
RefLevel(tok) ==
    IF tok.type = "TELUGU_KEYWORD"
    THEN (IF tok.value = <<"or">> THEN 1 ELSE IF tok.value = <<"and">> THEN 2 ELSE 0)
    ELSE CASE tok.type \in {"EQUALS", "NE"} -> 3
           [] tok.type \in {"LT", "LE", "GT", "GE", "IN"} -> 4
           [] tok.type \in {"PLUS", "MINUS"} -> 5
           [] tok.type \in {"TIMES", "DIVIDE", "MODULO"} -> 6
           [] OTHER -> 0

RefIsUnary(tok) ==
    tok.type \in {"MINUS", "PLUS"} \/ (tok.type = "TELUGU_KEYWORD" /\ tok.value = <<"not">>)

RECURSIVE RefOperand(_, _), RefClimb(_, _, _, _), RefExpression(_, _, _)

RefOperand(ts, p) ==
    IF RefIsUnary(ts[p])
    THEN Then(RefOperand(ts, p + 1), LAMBDA r :
         Ok([kind |-> "UnaryOperation", operator |-> ts[p].value, operand |-> r.node],
            r.pos))
    ELSE IF ts[p].type = "LPAREN"
    THEN Then(RefExpression(ts, p + 1, 1), LAMBDA r : Ok(r.node, r.pos + 1))
    ELSE Ok(Identifier(ts[p].value), p + 1)

RefClimb(ts, left, p, min) ==
    IF p > Len(ts) \/ RefLevel(ts[p]) = 0 \/ RefLevel(ts[p]) < min THEN Ok(left, p)
    ELSE Then(RefExpression(ts, p + 1, RefLevel(ts[p]) + 1), LAMBDA r :
         RefClimb(ts, Bin(left, ts[p].value, r.node), r.pos, min))

RefExpression(ts, p, min) ==
    Then(RefOperand(ts, p), LAMBDA l : RefClimb(ts, l.node, l.pos, min))

NameToken(n) == Tok("IDENTIFIER", <<n>>, 1)

\* C24: for every sequence of operand and operator tokens the tree
\* _parse_expression returns is the tree of the reference precedence-climbing
\* parser with the levels or < and < equality < relational < additive <
\* multiplicative < unary < primary, every binary level left-associative
C24_TreeOfPrecedenceClimbing ==
    pc # "tokens" => pc # "failed" /\ tree = RefExpression(tokens, 1, 1).node

\* a - b - c has been parsed as (a - b) - c
C24_SubtractionChainParsed ==
    /\ pc = "expression"
    /\ tokens = <<NameToken("a"), Tok("MINUS", <<"-">>, 1), NameToken("b"),
                  Tok("MINUS", <<"-">>, 1), NameToken("c")>>
    /\ tree = Bin(Bin(Identifier(<<"a">>), <<"-">>, Identifier(<<"b">>)), <<"-">>,
                  Identifier(<<"c">>))

(***************************************************************************)
(* Reading rendered expressions back.  The rendered text is split into the *)
(* tokens of the expression grammar, the operator words being the values   *)
(* the grammar's operator tokens carry.                                    *)
(***************************************************************************)
RenderedToken(a) ==
    CASE a \in {"or", "and", "not"} -> Tok("TELUGU_KEYWORD", <<a>>, 1)
      [] a = "in" -> Tok("IN", <<a>>, 1)
      [] a = "<" -> Tok("LT", <<a>>, 1)
      [] a = "+" -> Tok("PLUS", <<a>>, 1)
      [] a = "-" -> Tok("MINUS", <<a>>, 1)
      [] a = "*" -> Tok("TIMES", <<a>>, 1)
      [] a = "%" -> Tok("MODULO", <<a>>, 1)
      [] a = "(" -> Tok("LPAREN", <<a>>, 1)
      [] a = ")" -> Tok("RPAREN", <<a>>, 1)
      [] OTHER -> Tok("IDENTIFIER", <<a>>, 1)

RECURSIVE RenderedTokens(_)
RenderedTokens(s) ==
    IF s = <<>> THEN <<>>
    ELSE IF Head(s) = SP THEN RenderedTokens(Tail(s))
    ELSE IF Len(s) >= 2 /\ s[1] = "=" /\ s[2] = "="
         THEN <<Tok("EQUALS", <<"=", "=">>, 1)>> \o RenderedTokens(SubSeq(s, 3, Len(s)))
    ELSE <<RenderedToken(Head(s))>> \o RenderedTokens(Tail(s))

\* the tree _parse_expression builds from the rendered text
Reparsed == parse_expression(RenderedTokens(output), 1).node

EqualityOf(l, r) == Bin(Identifier(<<l>>), <<"=", "=">>, Identifier(<<r>>))

\* C25: the rendered text of a tree the expression grammar built, parsed
\* again with the same grammar, gives an equal tree
C25_RenderParseRoundTrip == pc = "rendered" => Reparsed = tree

\* (a == b) < c has been rendered, as a == b < c, the text of a == (b < c)
C25_GroupingLostInText ==
    /\ pc = "rendered"
    /\ tree = Bin(EqualityOf("a", "b"), <<"<">>, Identifier(<<"c">>))
    /\ output = <<"a", SP, "=", "=", SP, "b", SP, "<", SP, "c">>
    /\ Reparsed = Bin(Identifier(<<"a">>), <<"=", "=">>,
                      Bin(Identifier(<<"b">>), <<"<">>, Identifier(<<"c">>)))

(***************************************************************************)
(* String literals                                                         *)
(***************************************************************************)
\* the characters a literal's text between its quotes denotes: a backslash
\* with the quote or backslash after it stands for that character
RECURSIVE Denoted(_)
Denoted(s) ==
    IF s = <<>> THEN <<>>
    ELSE IF Head(s) = BSLASH /\ Len(s) >= 2 /\ s[2] \in {QUOTE, BSLASH}
         THEN <<s[2]>> \o Denoted(SubSeq(s, 3, Len(s)))
    ELSE <<Head(s)>> \o Denoted(Tail(s))

\* the text between the first and the last quote of a line
Quoted(s) ==
    LET Q == {i \in 1..Len(s) : s[i] = QUOTE} IN
    SubSeq(s, Min(Q) + 1, Max(Q) - 1)

\* C26: the literal rendered for a double-quoted source literal denotes the
\* characters the source literal denotes; escaped quotes and backslashes are
\* neither escaped twice nor unescaped
C26_StringLiteralRoundTrip ==
    (pc = "rendered" /\ text \in StringPrograms) =>
        Denoted(Quoted(output)) = Denoted(Quoted(text))

\* s = "a\"" has been rendered as s = "a\\\"": a, backslash, quote for a, quote
C26_EscapedQuoteEscapedAgain ==
    /\ pc = "rendered"
    /\ text = StringAssignment(<<"a", BSLASH, QUOTE>>)
    /\ Quoted(output) = <<"a", BSLASH, BSLASH, BSLASH, QUOTE>>
    /\ Denoted(Quoted(output)) = <<"a", BSLASH, QUOTE>>
    /\ Denoted(Quoted(text)) = <<"a", QUOTE>>

(***************************************************************************)
(* Suffixes of a primary                                                   *)
(***************************************************************************)
\* C27: an identifier followed by .name, .name(args) and (args) suffixes
\* renders as the identifier followed by the same suffixes in the same order
C27_SuffixesRenderedInOrder ==
    (pc \in {"rendered", "render_failed"} /\ text \in SuffixPrograms) =>
        pc = "rendered" /\ output = text

\* x = a(2)(2) has been parsed into a call whose name is the repr of the
\* inner call, and rendered with that repr as the callee
C27_CallOfCallRenderedAsRepr ==
    /\ pc = "rendered"
    /\ text = SuffixAssignment(<<"(", "2", ")", "(", "2", ")">>)
    /\ tree.statements[1].value.kind = "FunctionCall"
    /\ tree.statements[1].value.name[1] = "FunctionCall"
    /\ output # text
    /\ SubSeq(output, 1, 5) = <<"x", SP, "=", SP, "FunctionCall">>

(***************************************************************************)
(* The token stream.  A TokenStream is its token list and its cursor pos   *)
(* (0-based, as in the code).  The lookahead predicates of statement       *)
(* dispatch are given the stream and reach it through stream.peek only;    *)
(* each is modelled with the stream threaded through every call it makes,  *)
(* and returns its answer with the stream as it leaves it.                 *)
(***************************************************************************)
Stream(ts, p) == [tokens |-> ts, pos |-> p]

\* what peek returns beyond the last token (None)
NoToken == [type |-> "None", value |-> <<>>, lineno |-> 0]

TokenAt(stream, at) ==
    IF at < Len(stream.tokens) THEN stream.tokens[at + 1] ELSE NoToken

\* a peek that moves the cursor over the token it returns
C28_PeekAdvancing(stream, offset) ==
    [token |-> TokenAt(stream, stream.pos + offset),
     stream |-> IF stream.pos + offset < Len(stream.tokens)
                THEN Stream(stream.tokens, stream.pos + offset + 1) ELSE stream]

\* TokenStream.peek(offset): the token, and the stream after the call
peek(stream, offset) ==
    [token |-> TokenAt(stream, stream.pos + offset), stream |-> stream]

\* the rest of a predicate after a call on the stream
Seen(k, rest(_)) == rest(k)

Said(answer, stream) == [answer |-> answer, stream |-> stream]

IsKeywordToken(tok, value) == tok.type = "TELUGU_KEYWORD" /\ tok.value = value

RECURSIVE return_lookahead(_, _), postfix_print_lookahead(_, _, _),
          for_loop_lookahead(_, _, _), while_loop_lookahead(_, _),
          incomplete_for_lookahead(_, _, _)

\* the loop of _is_telugu_return_statement (its depth count is never read)
return_lookahead(stream, offset) ==
    IF ~(offset < Len(stream.tokens) - stream.pos) THEN Said(FALSE, stream)
    ELSE Seen(peek(stream, offset), LAMBDA k :
         IF k.token.type \in {"None", "NEWLINE"} THEN Said(FALSE, k.stream)
         ELSE IF IsKeywordToken(k.token, <<"return">>) THEN Said(TRUE, k.stream)
         ELSE return_lookahead(k.stream, offset + 1))

is_telugu_return_statement_on(stream) == return_lookahead(stream, 1)

\* the loop of _is_telugu_postfix_print
postfix_print_lookahead(stream, offset, depth) ==
    IF ~(offset < Len(stream.tokens) - stream.pos) THEN Said(FALSE, stream)
    ELSE Seen(peek(stream, offset), LAMBDA k :
         IF k.token.type = "None" THEN Said(FALSE, k.stream)
         ELSE IF k.token.type = "LPAREN"
         THEN postfix_print_lookahead(k.stream, offset + 1, depth + 1)
         ELSE IF k.token.type = "RPAREN" /\ depth - 1 = 0
         THEN Seen(peek(k.stream, offset + 1), LAMBDA n :
              Said(IsKeywordToken(n.token, <<"print">>), n.stream))
         ELSE postfix_print_lookahead(k.stream, offset + 1,
                  IF k.token.type = "RPAREN" THEN depth - 1 ELSE depth))

is_telugu_postfix_print_on(stream) ==
    Seen(peek(stream, 0), LAMBDA first :
    IF first.token.type = "None" THEN Said(FALSE, first.stream)
    ELSE Seen(peek(first.stream, 0), LAMBDA again :
         IF again.token.type = "LPAREN" THEN postfix_print_lookahead(again.stream, 0, 0)
         ELSE Said(FALSE, again.stream)))

\* the loop of _is_telugu_for_loop
for_loop_lookahead(stream, offset, depth) ==
    IF ~(offset < Len(stream.tokens) - stream.pos) THEN Said(FALSE, stream)
    ELSE Seen(peek(stream, offset), LAMBDA k :
         IF k.token.type = "None" THEN Said(FALSE, k.stream)
         ELSE IF k.token.type = "LPAREN"
         THEN for_loop_lookahead(k.stream, offset + 1, depth + 1)
         ELSE IF k.token.type = "RPAREN"
         THEN for_loop_lookahead(k.stream, offset + 1, depth - 1)
         ELSE IF depth = 0 /\ IsKeywordToken(k.token, <<"in">>)
         THEN Seen(peek(k.stream, offset + 1), LAMBDA var_token :
              Seen(peek(var_token.stream, offset + 2), LAMBDA ki_token :
              Seen(peek(ki_token.stream, offset + 3), LAMBDA colon_token :
              Said(/\ var_token.token.type = "IDENTIFIER"
                   /\ ki_token.token.type = "TELUGU_KEYWORD"
                   /\ colon_token.token.type = "COLON", colon_token.stream))))
         ELSE for_loop_lookahead(k.stream, offset + 1, depth))

is_telugu_for_loop_on(stream) == for_loop_lookahead(stream, 0, 0)

\* the loop of _is_telugu_while_loop
while_loop_lookahead(stream, offset) ==
    IF ~(offset < Len(stream.tokens) - stream.pos - 1) THEN Said(FALSE, stream)
    ELSE Seen(peek(stream, offset), LAMBDA token :
         Seen(peek(token.stream, offset + 1), LAMBDA next_token :
         IF token.token.type = "NEWLINE" THEN Said(FALSE, next_token.stream)
         ELSE IF IsKeywordToken(token.token, <<"while">>)
                 /\ next_token.token.type = "COLON"
         THEN Said(TRUE, next_token.stream)
         ELSE while_loop_lookahead(next_token.stream, offset + 1)))

is_telugu_while_loop_on(stream) == while_loop_lookahead(stream, 0)

\* the loop of _is_incomplete_for_loop
incomplete_for_lookahead(stream, offset, depth) ==
    IF ~(offset < Len(stream.tokens) - stream.pos) THEN Said(FALSE, stream)
    ELSE Seen(peek(stream, offset), LAMBDA k :
         IF k.token.type = "None" THEN Said(FALSE, k.stream)
         ELSE IF k.token.type = "LPAREN"
         THEN incomplete_for_lookahead(k.stream, offset + 1, depth + 1)
         ELSE IF k.token.type = "RPAREN"
         THEN incomplete_for_lookahead(k.stream, offset + 1, depth - 1)
         ELSE IF depth = 0 /\ IsKeywordToken(k.token, <<"in">>)
         THEN Seen(peek(k.stream, offset + 1), LAMBDA var_token :
              Seen(peek(var_token.stream, offset + 2), LAMBDA ki_token :
              IF var_token.token.type # "IDENTIFIER" THEN Said(FALSE, ki_token.stream)
              ELSE IF ki_token.token.type # "TELUGU_KEYWORD"
              THEN Said(TRUE, ki_token.stream)
              ELSE Seen(peek(ki_token.stream, offset + 3), LAMBDA colon_token :
                   Said(colon_token.token.type # "COLON", colon_token.stream))))
         ELSE incomplete_for_lookahead(k.stream, offset + 1, depth))

is_incomplete_for_loop_on(stream) == incomplete_for_lookahead(stream, 0, 0)

(***************************************************************************)
(* The statement loop of _parse_program, one iteration a step, on the      *)
(* stream of a tokenized text; between iterations the lookahead predicates *)
(* may be asked about the stream.                                          *)
(***************************************************************************)
StreamPrograms ==
    {t \in DispatchPrograms \cup LaterLinePrograms \cup KeywordOperandPrograms
           \cup NestedConditionalPrograms \cup SuffixPrograms \cup UnevenBodyPrograms :
        tokenize(t, 1, 0).error = ""}

InitStream ==
    /\ text \in StreamPrograms
    /\ pc = "statements"
    /\ tokens = tokenize(text, 1, 0).tokens
    /\ tree = Program(<<>>)
    /\ err = NoError
    /\ output = <<>>
    /\ paren_count = tokenize(text, 1, 0).paren_count
    /\ lineno = tokenize(text, 1, 0).lineno
    /\ stream_pos = 0
    /\ lookahead = NoLookahead

\* a lookahead predicate has been called on the stream and has returned
Asked(predicate, r) ==
    /\ pc = "statements"
    /\ stream_pos < Len(tokens)
    /\ lookahead' = [predicate |-> predicate, answer |-> r.answer]
    /\ tokens' = r.stream.tokens
    /\ stream_pos' = r.stream.pos
    /\ UNCHANGED <<text, pc, tree, err, output, paren_count, lineno>>

IsTeluguReturnStatement ==
    Asked("is_telugu_return_statement",
          is_telugu_return_statement_on(Stream(tokens, stream_pos)))

IsTeluguPostfixPrint ==
    Asked("is_telugu_postfix_print",
          is_telugu_postfix_print_on(Stream(tokens, stream_pos)))

IsTeluguForLoop ==
    Asked("is_telugu_for_loop", is_telugu_for_loop_on(Stream(tokens, stream_pos)))

IsTeluguWhileLoop ==
    Asked("is_telugu_while_loop", is_telugu_while_loop_on(Stream(tokens, stream_pos)))

IsIncompleteForLoop ==
    Asked("is_incomplete_for_loop", is_incomplete_for_loop_on(Stream(tokens, stream_pos)))

\* the state after one iteration of the loop that called _parse_statement
StatementParsed(r) ==
    IF r.err # ""
    THEN /\ pc' = "failed"
         /\ err' = [kind |-> r.err, msg |-> r.msg]
         /\ UNCHANGED <<tree, stream_pos>>
    ELSE /\ stream_pos' = r.pos - 1
         /\ tree' = IF r.node.kind = "None" THEN tree
                    ELSE Program(Append(tree.statements, r.node))
         /\ UNCHANGED <<pc, err>>

\* one iteration of the while loop of _parse_program, or its exit
StatementStep ==
    /\ pc = "statements"
    /\ IF stream_pos >= Len(tokens)
       THEN pc' = "parsed" /\ UNCHANGED <<tree, err, stream_pos>>
       ELSE IF tokens[stream_pos + 1].type = "NEWLINE"
       THEN stream_pos' = stream_pos + 1 /\ UNCHANGED <<pc, tree, err>>
       ELSE StatementParsed(parse_statement(text, tokens, stream_pos + 1))
    /\ lookahead' = NoLookahead
    /\ UNCHANGED <<text, tokens, output, paren_count, lineno>>

NextStream ==
    \/ IsTeluguReturnStatement
    \/ IsTeluguPostfixPrint
    \/ IsTeluguForLoop
    \/ IsTeluguWhileLoop
    \/ IsIncompleteForLoop
    \/ StatementStep

SpecStream == InitStream /\ [][NextStream]_vars

\* C28: a lookahead predicate of statement dispatch, whatever it answers,
\* leaves the stream position and the token list as they were before the call
C28_LookaheadLeavesStream ==
    [][lookahead'.predicate # "" => stream_pos' = stream_pos /\ tokens' = tokens]_vars

\* the return lookahead has answered yes about the tokens after the first
\* one, and the for-loop lookahead can be asked at a later position
C28_ReturnSeenAhead ==
    /\ lookahead = [predicate |-> "is_telugu_return_statement", answer |-> TRUE]
    /\ stream_pos > 0
    /\ stream_pos < Len(tokens)

(***************************************************************************)
(* Termination of the statement loop.  The number of tokens after the      *)
(* cursor is the loop's variant: it is never negative, no step raises it,  *)
(* and every iteration that stays in the loop lowers it.                   *)
(***************************************************************************)
\* the iteration of the statement loop that is next when the cursor stands
\* before a token that is not a NEWLINE: _parse_statement raises or leaves
\* the cursor further on
StatementAdvances(r, p) == r.err # "" \/ (r.pos > p /\ r.pos <= Len(tokens) + 1)

\* one call of _parse_statement inside a block loop: it raises, returns no
\* statement (the block loop leaves), or leaves the cursor further on
StatementConsumes(r, p) ==
    r.err # "" \/ r.node.kind = "None" \/ (r.pos > p /\ r.pos <= Len(tokens) + 1)

\* one call of _parse_expression in an argument or element loop: it raises
\* or leaves the cursor where it was or further on, within the token list;
\* the loop goes on only by consuming a comma after it
ExpressionKeepsCursor(r, p) ==
    r.err # "" \/ (r.pos >= p /\ r.pos <= Len(tokens) + 1)

NextIterationAdvances ==
    (pc = "statements" /\ stream_pos < Len(tokens)
     /\ tokens[stream_pos + 1].type # "NEWLINE") =>
        StatementAdvances(parse_statement(text, tokens, stream_pos + 1), stream_pos + 1)

InnerLoopsAdvance ==
    \A p \in 1..Len(tokens) :
        /\ StatementConsumes(parse_statement(text, tokens, p), p)
        /\ ExpressionKeepsCursor(parse_expression(tokens, p), p)

\* C29: the cursor stays between 0 and the number of tokens and never moves
\* backwards; every iteration of the statement loop consumes at least one
\* token, leaves the loop or raises, and so do the statements of a block and
\* the expressions of an argument list: the loop ends after at most as many
\* iterations as there are tokens, and one more
C29_ParseTerminates ==
    /\ [](stream_pos >= 0 /\ stream_pos <= Len(tokens))
    /\ [](NextIterationAdvances /\ InnerLoopsAdvance)
    /\ [][stream_pos' >= stream_pos]_vars
    /\ [][lookahead'.predicate = "" => stream_pos' > stream_pos \/ pc' # "statements"]_vars

\* the loop has ended at the end of the tokens after a keyword that starts
\* no statement was dropped and a statement after it was parsed
C29_LoopEndedAfterDroppedKeyword ==
    /\ pc = "parsed"
    /\ text = <<"ki", NL, "x", SP, "=", SP, "1">>
    /\ stream_pos = Len(tokens)
    /\ Len(tree.statements) = 1

(***************************************************************************)
(* Rendered expressions read as Python.  Python's operator levels, loosest *)
(* first: or, and, not, comparisons (==, <, in, ... on one level, chained  *)
(* when several follow each other), + -, * %, unary -.  A 'not' may stand  *)
(* only where an operand of or, and or not is expected.                    *)
(***************************************************************************)
PythonLevel(tok) ==
    IF tok.type = "TELUGU_KEYWORD"
    THEN (IF tok.value = <<"or">> THEN 1 ELSE IF tok.value = <<"and">> THEN 2 ELSE 0)
    ELSE CASE tok.type \in {"EQUALS", "NE", "LT", "LE", "GT", "GE", "IN"} -> 4
           [] tok.type \in {"PLUS", "MINUS"} -> 5
           [] tok.type \in {"TIMES", "DIVIDE", "MODULO"} -> 6
           [] OTHER -> 0

Unary(op, operand) == [kind |-> "UnaryOperation", operator |-> op, operand |-> operand]

RECURSIVE PythonOperand(_, _, _), PythonClimb(_, _, _, _, _), PythonExpression(_, _, _)

\* an operand where operators of level min or tighter may follow
PythonOperand(ts, p, min) ==
    IF p > Len(ts) THEN Raise("SyntaxError", <<>>)
    ELSE IF IsKeyword(ts, p, <<"not">>)
    THEN IF min > 3 THEN Raise("SyntaxError", <<>>)
         ELSE Then(PythonExpression(ts, p + 1, 3), LAMBDA r :
              Ok(Unary(<<"not">>, r.node), r.pos))
    ELSE IF ts[p].type \in {"MINUS", "PLUS"}
    THEN Then(PythonOperand(ts, p + 1, 7), LAMBDA r :
         Ok(Unary(ts[p].value, r.node), r.pos))
    ELSE IF ts[p].type = "LPAREN"
    THEN Then(PythonExpression(ts, p + 1, 1), LAMBDA r :
         IF Match(ts, r.pos, {"RPAREN"}) THEN Ok(r.node, r.pos + 1)
         ELSE Raise("SyntaxError", <<>>))
    ELSE IF ts[p].type = "IDENTIFIER" THEN Ok(Identifier(ts[p].value), p + 1)
    ELSE Raise("SyntaxError", <<>>)

\* compared: left was built by a comparison of this same run of operators,
\* so that a further comparison operator makes a chain, which is no grouping
PythonClimb(ts, left, p, min, compared) ==
    IF p > Len(ts) \/ PythonLevel(ts[p]) = 0 \/ PythonLevel(ts[p]) < min THEN Ok(left, p)
    ELSE IF PythonLevel(ts[p]) = 4 /\ compared THEN Raise("Chained", <<>>)
    ELSE Then(PythonExpression(ts, p + 1, PythonLevel(ts[p]) + 1), LAMBDA r :
         PythonClimb(ts, Bin(left, ts[p].value, r.node), r.pos, min,
                     PythonLevel(ts[p]) = 4))

PythonExpression(ts, p, min) ==
    Then(PythonOperand(ts, p, min), LAMBDA l : PythonClimb(ts, l.node, l.pos, min, FALSE))

\* the tree Python builds for the text, None when the text is no Python
\* expression or holds a chain of comparisons
PythonTree(ts) ==
    Then(PythonExpression(ts, 1, 1), LAMBDA r :
    IF r.pos = Len(ts) + 1 THEN r ELSE Raise("SyntaxError", <<>>))

PythonReading(s) == PythonTree(RenderedTokens(s)).node

IsNot(n) == n.kind = "UnaryOperation" /\ n.operator = <<"not">>

\* a logical-not operation is an operand of a binary operation of the tree
RECURSIVE HasNotOperand(_)
HasNotOperand(n) ==
    IF n.kind = "BinaryOperation"
    THEN IsNot(n.left) \/ IsNot(n.right) \/ HasNotOperand(n.left) \/ HasNotOperand(n.right)
    ELSE IF n.kind = "UnaryOperation" THEN HasNotOperand(n.operand)
    ELSE FALSE

\* C30: the rendered text of a tree in which a logical-not operation is an
\* operand of a binary operator, read as Python, groups as the tree does
C30_NotOperandKeepsGrouping ==
    (pc = "rendered" /\ HasNotOperand(tree)) => PythonReading(output) = tree

\* not a == b, parsed as (not a) == b, has been rendered as not a == b,
\* which Python reads as not (a == b)
C30_NotTakesComparison ==
    /\ pc = "rendered"
    /\ tree = Bin(Unary(<<"not">>, Identifier(<<"a">>)), <<"=", "=">>, Identifier(<<"b">>))
    /\ output = <<"not", SP, "a", SP, "=", "=", SP, "b">>
    /\ PythonReading(output) = Unary(<<"not">>, EqualityOf("a", "b"))

====
